---- MODULE Spec2Model ----
(***************************************************************************)
(* A state-machine model of the task-node library: the agent loop          *)
(* (llm.ts, agentLoop), the tool router (toolRouter.ts), the LLM node       *)
(* (llm.ts, llm), the memory node (memory.ts) and the event emitter        *)
(* (EventEmitter.ts).  Asynchronous handlers are cut at their awaits: one  *)
(* action per synchronous segment between two suspension points.           *)
(***************************************************************************)
EXTENDS Integers, Sequences, FiniteSets, TLC

VARIABLES
    node,             \* which node was constructed: "agentLoop", "toolRouter", "llm",
                      \* "memory" or "eventEmitter"
    config,           \* the node's config object (provider, apiKey, maxIterations)
    listeners,        \* the node's listeners[event], handlers in registration order
    messages,         \* agentLoop: the shared conversation array
    toolDefinitions,  \* agentLoop: tool definitions sent to the model (names)
    toolHandlers,     \* agentLoop: the toolHandlers object, name -> handler
    runs,             \* agentLoop: one record per invocation of the input handler
    tools,            \* toolRouter: the tools object, name -> handler
    batches,          \* toolRouter: one record per invocation of the input handler
    requests,         \* llm: one record per invocation of the input handler
    emitted,          \* memory, eventEmitter, readStream: one record per call of emit
    status,           \* the status field that resume and pause assign
    workflow,         \* compile: the descriptor list, with the ids compile assigns
    compileContext    \* compile: nodes, nodeTypeCounts and the accumulators

agentVars == <<messages, toolDefinitions, toolHandlers, runs>>

routerVars == <<tools, batches>>

graphVars == <<workflow, compileContext>>

vars == <<node, config, listeners, agentVars, routerVars, requests, emitted, status, graphVars>>

(***************************************************************************)
(* Bounds of the exploration.                                              *)
(***************************************************************************)
\* largest maxIterations a configuration sets
MaxIter == 2
\* number of user turns written to one agent loop
MaxRuns == 2
\* tool-call batches written to one tool router
MaxDispatches == 1
\* largest number of tool calls in one batch written to the tool router
MaxBatch == 2
\* requests written to one LLM node
MaxRequests == 1
\* calls of addMessage, clear, resume and write on one memory node
MaxOps == 3
\* largest maxMessages a memory configuration sets
MaxKept == 2
\* handlers registered with one event emitter
MaxHandlers == 3
\* calls of emit on one event emitter
MaxPublishes == 1
\* sinks one read stream is piped to
MaxSinks == 1
\* handlers registered on one read stream with on()
MaxSubscribers == 1
\* calls of emit on one read stream
MaxEmits == 2
\* calls of trigger on the input nodes of one compiled graph
MaxTriggers == 3
\* model calls the written user turns may need in total: a turn is written only
\* while the calls its run may make still fit
MaxCalls == 3

(***************************************************************************)
(* Program constants.                                                      *)
(***************************************************************************)
DefaultMaxIterations == 10

(***************************************************************************)
(* Data: content blocks, messages, tool calls, tool results.               *)
(***************************************************************************)
NoKey == ""

\* no graph was compiled
NoContext == [nodes |-> <<>>]

TextBlock(t) == [type |-> "text", text |-> t]

ToolUseBlock(id, name, input) ==
    [type |-> "tool_use", id |-> id, name |-> name, input |-> input]

\* llm.ts 558-563, toolRouter.ts 123-128; is_error = FALSE stands for undefined
\* a result whose content is undefined gives a block whose content is undefined
ToolResultBlock(result) ==
    IF "content" \in DOMAIN result
    THEN [type |-> "tool_result", tool_use_id |-> result.tool_use_id,
          content |-> result.content,
          is_error |-> ("is_error" \in DOMAIN result /\ result.is_error)]
    ELSE [type |-> "tool_result", tool_use_id |-> result.tool_use_id,
          is_error |-> ("is_error" \in DOMAIN result /\ result.is_error)]

\* Message.content is a string or a list of content blocks.
StringContent(s) == [string |-> s]

BlockContent(bs) == [blocks |-> bs]

IsString(c) == "string" \in DOMAIN c

Message(role, content) == [role |-> role, content |-> content]

ToolCall(id, name, input) == [id |-> id, name |-> name, input |-> input]

\* JavaScript objects that occur as tool inputs and handler results: a set of
\* key/value pairs.
EmptyObject == {}

CityObject == {<<"city", "SF">>}

RECURSIVE Join(_, _)
\* Array.prototype.join
Join(strs, sep) ==
    IF Len(strs) = 0 THEN ""
    ELSE IF Len(strs) = 1 THEN strs[1]
    ELSE strs[1] \o sep \o Join(Tail(strs), sep)

\* Array.prototype.filter
Filter(seq, Keep(_)) == SelectSeq(seq, Keep)

\* Array.prototype.map
Map(seq, F(_)) == [i \in 1..Len(seq) |-> F(seq[i])]

IsText(b) == b.type = "text"

IsToolUse(b) == b.type = "tool_use"

IsToolResult(b) == b.type = "tool_result"

BlockText(b) == b.text

\* the text blocks of a content list joined with newlines
TextOf(content) == Join(Map(Filter(content, IsText), BlockText), "\n")

JSONStringify(v) ==
    IF v = EmptyObject THEN "{}" ELSE "{\"city\":\"SF\"}"

\* JSON.parse: [ok, value]; ok = FALSE stands for the SyntaxError it throws
JSONParse(s) ==
    IF s = "{}" THEN [ok |-> TRUE, value |-> EmptyObject]
    ELSE IF s = "{\"city\":\"SF\"}" THEN [ok |-> TRUE, value |-> CityObject]
    ELSE [ok |-> FALSE, value |-> EmptyObject]


(***************************************************************************)
(* Errors: the message of the Error object.                                *)
(***************************************************************************)
Error(message) == [message |-> message]

MissingKeyError == Error("API key is required for agent loop")

MaxIterationsError(limit) == Error("Max iterations (" \o ToString(limit) \o ") reached")

UnknownProviderError(provider) == Error("Unknown provider: " \o provider)

ApiError(provider, httpStatus, text) ==
    Error((IF provider = "anthropic" THEN "Anthropic" ELSE "OpenAI")
          \o " API error: " \o ToString(httpStatus) \o " " \o text)

\* what fetch rejects with, what JSON.parse or a property access on a malformed
\* body throws, and what a throwing subscriber throws
TransportError == Error("fetch failed")

ParseError == Error("Unexpected token in JSON")

MalformedBodyError == Error("Cannot read properties of undefined")

SubscriberError == Error("subscriber failed")

(***************************************************************************)
(* Protocol adapter of the agent loop: requests.                           *)
(***************************************************************************)
IsSystem(m) == m.role = "system"

NotSystem(m) == m.role # "system"

BlockTextOrEmpty(b) == IF "text" \in DOMAIN b THEN b.text ELSE ""

\* llm.ts 605: the system prompt taken from one system message
SystemTextOf(m) ==
    IF IsString(m.content) THEN m.content.string
    ELSE Join(Map(m.content.blocks, BlockTextOrEmpty), "\n")

\* variant: a request that sets the system field and keeps the system message
AnthropicRequestKeepsSystem(msgs, defs) ==
    LET sys == Filter(msgs, IsSystem)
    IN  [messages |-> msgs,
         system   |-> IF Len(sys) = 0 THEN "" ELSE SystemTextOf(sys[Len(sys)]),
         tools    |-> defs]

\* llm.ts 602-623: the filter callback overwrites systemPrompt at every system
\* message, so the last one wins; a falsy prompt and an empty tool list are not
\* set on the body (modelled as "" and <<>>)
AnthropicRequest(msgs, defs) ==
    LET sys == Filter(msgs, IsSystem)
    IN  [messages |-> Filter(msgs, NotSystem),
         system   |-> IF Len(sys) = 0 THEN "" ELSE SystemTextOf(sys[Len(sys)]),
         tools    |-> defs]

Null == [null |-> TRUE]

\* `joined || null`
StringOrNull(s) == IF s = "" THEN Null ELSE StringContent(s)

OpenAIToolCall(b) ==
    [id |-> b.id, type |-> "function",
     function |-> [name |-> b.name, arguments |-> JSONStringify(b.input)]]

OpenAIToolMessage(b) ==
    [role |-> "tool", content |-> StringContent(b.content), tool_call_id |-> b.tool_use_id]

\* llm.ts 665-706: the flatMap callback for one message
OpenAIMessagesOf(msg) ==
    IF IsString(msg.content)
    THEN <<[role |-> msg.role, content |-> msg.content]>>
    ELSE LET textBlocks       == Filter(msg.content.blocks, IsText)
             toolUseBlocks    == Filter(msg.content.blocks, IsToolUse)
             toolResultBlocks == Filter(msg.content.blocks, IsToolResult)
             text             == Join(Map(textBlocks, BlockText), "\n")
         IN  IF msg.role = "assistant"
             THEN IF Len(toolUseBlocks) > 0
                  THEN <<[role |-> "assistant", content |-> StringOrNull(text),
                          tool_calls |-> Map(toolUseBlocks, OpenAIToolCall)]>>
                  ELSE <<[role |-> "assistant", content |-> StringOrNull(text)]>>
             ELSE IF msg.role = "user"
             THEN Map(toolResultBlocks, OpenAIToolMessage)
                  \o (IF Len(textBlocks) > 0
                      THEN <<[role |-> "user", content |-> StringContent(text)]>>
                      ELSE <<>>)
             ELSE <<[role |-> msg.role, content |-> StringContent(text)]>>

RECURSIVE FlatMapOpenAI(_)
FlatMapOpenAI(msgs) ==
    IF Len(msgs) = 0 THEN <<>>
    ELSE OpenAIMessagesOf(msgs[1]) \o FlatMapOpenAI(Tail(msgs))

OpenAITool(name) == [type |-> "function", function |-> [name |-> name]]

\* llm.ts 708-723
OpenAIRequest(msgs, defs) ==
    [messages |-> FlatMapOpenAI(msgs), tools |-> Map(defs, OpenAITool)]

(***************************************************************************)
(* Protocol adapter of the agent loop: responses.                          *)
(* A parsed response is [ok, content, toolCalls, stopReason]; ok = FALSE    *)
(* stands for the exception the call throws, carried in error.              *)
(***************************************************************************)
Thrown(error) == [ok |-> FALSE, error |-> error]

ToolCallOfBlock(b) == ToolCall(b.id, b.name, b.input)

\* llm.ts 640-654
ParseAnthropic(body) ==
    IF "content" \notin DOMAIN body THEN Thrown(MalformedBodyError)
    ELSE [ok |-> TRUE,
          content |-> body.content,
          toolCalls |-> Map(Filter(body.content, IsToolUse), ToolCallOfBlock),
          stopReason |-> body.stop_reason]

ArgumentsParse(tc) == JSONParse(tc.function.arguments).ok

ArgumentsFail(tc) == ~JSONParse(tc.function.arguments).ok

ToolUseOfOpenAI(tc) ==
    ToolUseBlock(tc.id, tc.function.name, JSONParse(tc.function.arguments).value)

ToolCallOfOpenAI(tc) ==
    ToolCall(tc.id, tc.function.name, JSONParse(tc.function.arguments).value)

\* llm.ts 739-768: choices[0]; a null content and absent tool_calls are falsy
ParseOpenAI(body) ==
    IF "choices" \notin DOMAIN body \/ Len(body.choices) = 0
    THEN Thrown(MalformedBodyError)
    ELSE LET choice == body.choices[1]
             calls  == IF "tool_calls" \in DOMAIN choice.message
                       THEN choice.message.tool_calls ELSE <<>>
             text   == IF IsString(choice.message.content)
                          /\ choice.message.content.string # ""
                       THEN <<TextBlock(choice.message.content.string)>> ELSE <<>>
         IN  IF Len(Filter(calls, ArgumentsFail)) > 0 THEN Thrown(ParseError)
             ELSE [ok |-> TRUE,
                   content |-> text \o Map(calls, ToolUseOfOpenAI),
                   toolCalls |-> Map(calls, ToolCallOfOpenAI),
                   stopReason |-> IF choice.finish_reason = "tool_calls"
                                  THEN "tool_use" ELSE choice.finish_reason]

\* what the awaited fetch of a model call settles with
TransportThrows == [kind |-> "throw"]

HttpResponse(ok, httpStatus, text, body) ==
    [kind |-> "response", ok |-> ok, status |-> httpStatus, text |-> text, body |-> body]

\* llm.ts 625-654 and 725-768 after the await: the parsed response or the throw
ParseOutcome(provider, outcome) ==
    IF outcome.kind = "throw" THEN Thrown(TransportError)
    ELSE IF ~outcome.ok THEN Thrown(ApiError(provider, outcome.status, outcome.text))
    ELSE IF provider = "anthropic" THEN ParseAnthropic(outcome.body)
    ELSE ParseOpenAI(outcome.body)


(***************************************************************************)
(* Tool execution (executeTools of the agent loop, and the tool router's   *)
(* input handler, which holds the same code).                              *)
(***************************************************************************)
\* keys every plain object inherits from Object.prototype (a sample)
ObjectPrototypeKeys == {"toString"}

ToolResult(id, content) == [tool_use_id |-> id, content |-> content]

ToolError(id, content) == [tool_use_id |-> id, content |-> content, is_error |-> TRUE]

\* llm.ts 776-782, toolRouter.ts 98-104
NotFoundResult(toolCall) ==
    ToolError(toolCall.id, "Error: Tool \"" \o toolCall.name \o "\" not found")

\* what a handler does when it is called: return a string, return another
\* value, or throw (synchronously or by rejecting)
ReturnsString(s) == [kind |-> "string", str |-> s]

ReturnsValue(v) == [kind |-> "object", obj |-> v]

Throws(message) == [kind |-> "throw", message |-> message]

\* a handler that returns no value
ReturnsUndefined == [kind |-> "undefined"]

\* JSON.stringify(undefined) is undefined, not a string: the result's content
\* is undefined, which the record shows by having no content
UndefinedResult(id) == [tool_use_id |-> id]

NoHandler == [kind |-> "none"]

\* Object.prototype.toString called with no receiver
InheritedToString == ReturnsString("[object Undefined]")

\* `handlers[name]` on a plain object: an own key, else the prototype chain,
\* else undefined
LookupHandler(handlers, name) ==
    IF name \in DOMAIN handlers THEN handlers[name]
    ELSE IF name \in ObjectPrototypeKeys THEN InheritedToString
    ELSE NoHandler

\* variant: a thrown error reported as an ordinary result
ResultOfUnflagged(toolCall, outcome) ==
    IF outcome.kind = "undefined" THEN UndefinedResult(toolCall.id)
    ELSE ToolResult(toolCall.id,
                    IF outcome.kind = "throw" THEN "Error: " \o outcome.message
                    ELSE IF outcome.kind = "string" THEN outcome.str
                    ELSE JSONStringify(outcome.obj))

\* llm.ts 784-796, toolRouter.ts 106-118
ResultOf(toolCall, outcome) ==
    IF outcome.kind = "throw"
    THEN ToolError(toolCall.id, "Error: " \o outcome.message)
    ELSE IF outcome.kind = "undefined" THEN UndefinedResult(toolCall.id)
    ELSE ToolResult(toolCall.id,
                    IF outcome.kind = "string" THEN outcome.str
                    ELSE JSONStringify(outcome.obj))

\* one element of the array given to Promise.all: the call, the handler that
\* was invoked for it (or "none") and, once settled, its result
Started(handlers, toolCall) ==
    LET h == LookupHandler(handlers, toolCall.name)
    IN  IF h = NoHandler
        THEN [call |-> toolCall, handler |-> h, settled |-> TRUE, rank |-> 0,
              result |-> NotFoundResult(toolCall)]
        ELSE [call |-> toolCall, handler |-> h, settled |-> FALSE]

\* handlers of the batch that have returned or thrown so far
Completed(pending) ==
    Cardinality({k \in 1..Len(pending) : pending[k].settled /\ pending[k].rank > 0})

\* variant: the router looks the handler up when the call completes
SettledLookingUp(pending, k) ==
    LET h == IF node = "toolRouter" THEN LookupHandler(tools, pending[k].call.name)
             ELSE pending[k].handler
    IN  [pending EXCEPT ![k] =
            [call |-> @.call, handler |-> h, settled |-> TRUE,
             rank |-> Completed(pending) + 1,
             result |-> IF h = NoHandler THEN NotFoundResult(@.call)
                        ELSE ResultOf(@.call, h)]]

\* the invoked handler of call k returns or throws; rank is its place in the
\* order of completion
Settled(pending, k) ==
    [pending EXCEPT ![k] =
        [call |-> @.call, handler |-> @.handler, settled |-> TRUE,
         rank |-> Completed(pending) + 1, result |-> ResultOf(@.call, @.handler)]]

\* llm.ts 772-773, toolRouter.ts 94-95: toolCalls.map(async ...) starts every call
StartAll(handlers, toolCalls) == [k \in 1..Len(toolCalls) |-> Started(handlers, toolCalls[k])]

AllSettled(pending) == \A k \in 1..Len(pending) : pending[k].settled

\* variant: the results in the order in which the calls completed
JoinInCompletionOrder(pending) ==
    LET Before(i, j) == \/ pending[i].rank < pending[j].rank
                        \/ pending[i].rank = pending[j].rank /\ i < j
        At(k) == CHOOSE j \in 1..Len(pending) :
                    Cardinality({i \in 1..Len(pending) : Before(i, j)}) = k - 1
    IN  [k \in 1..Len(pending) |-> pending[At(k)].result]

IsSuccess(p) == "is_error" \notin DOMAIN p.result

PendingResult(p) == p.result

\* variant: a join that keeps only the calls that succeeded
JoinSuccessful(pending) == Map(Filter(pending, IsSuccess), PendingResult)

\* what Promise.all resolves with: the results in the order of the calls
JoinResults(pending) == [k \in 1..Len(pending) |-> pending[k].result]


(***************************************************************************)
(* The agent loop (llm.ts 406-802).                                        *)
(***************************************************************************)
Events == {"data", "error", "iteration"}

\* a handler registered with on() is "ok" (it returns for every payload) or
\* "throw" (it throws for some payloads)
HasThrower(event) ==
    \E i \in 1..Len(listeners[event]) : listeners[event][i] = "throw"

\* for one synchronous segment: the events whose publication meets a payload
\* on which a handler throws
ThrowChoices ==
    {[e \in Events |-> e \in S] : S \in SUBSET {e \in Events : HasThrower(e)}}

\* llm.ts 466-470, llm.ts 231-235, toolRouter.ts 65-69: forEach calls the
\* handlers in order with no try block, so emit throws when a handler does
EmitThrows(event, thr) == thr[event]

\* llm.ts 500, llm.ts 241: data.apiKey || config.apiKey
ResolveApiKey(input) == IF input.apiKey # NoKey THEN input.apiKey ELSE config.apiKey

\* variant: the credential check left out
KeyNeverMissing(apiKey) == FALSE

\* llm.ts 501, llm.ts 242: if (!apiKey)
KeyMissing(apiKey) == apiKey = NoKey

\* llm.ts 418: set.maxIterations || 10
ConfigMaxIterations(set) == IF set = 0 THEN DefaultMaxIterations ELSE set

\* variant: an iteration counter that goes on from where the last run left it
NewRunCountingOn(apiKey) ==
    [pc |-> "start", apiKey |-> apiKey,
     iteration |-> IF Len(runs) = 0 THEN 0 ELSE runs[Len(runs)].iteration, calls |-> 0,
     dispatches |-> 0, pending |-> <<>>, trace |-> <<>>, rejected |-> FALSE,
     fetchFailed |-> FALSE, threw |-> FALSE, request |-> [messages |-> <<>>, tools |-> <<>>]]

\* llm.ts 499-517: the locals of one invocation of the input handler
NewRun(apiKey) ==
    [pc |-> "start", apiKey |-> apiKey, iteration |-> 0, calls |-> 0,
     dispatches |-> 0, pending |-> <<>>, trace |-> <<>>, rejected |-> FALSE,
     fetchFailed |-> FALSE, threw |-> FALSE, request |-> [messages |-> <<>>, tools |-> <<>>]]

\* variant: a start event that counts as the first iteration
StartEventCounted == [event |-> "iteration", iteration |-> 1, phase |-> "start"]

\* llm.ts 514: the payload of the start event
StartEvent == [event |-> "iteration", iteration |-> 0, phase |-> "start"]

Published(run, ev) == [run EXCEPT !.trace = Append(@, ev)]

ErrorEvent(error) == [event |-> "error", error |-> error]

\* variant: a catch block that swallows the error
CatchBlockSilent(run, error, thr) == [run EXCEPT !.pc = "failed"]

\* variant: a catch block that repeats the model call
CatchBlockRetry(run, error, thr) == [run EXCEPT !.pc = "llm", !.calls = @ + 1]

\* llm.ts 576-578: the catch block publishes the error; when an error
\* handler throws there, the handler's promise rejects
CatchBlock(run, error, thr) ==
    [Published(run, ErrorEvent(error)) EXCEPT
        !.pc = "failed", !.rejected = EmitThrows("error", thr),
        !.threw = @ \/ EmitThrows("error", thr)]

\* the catch block entered with the exception of a throwing subscriber
CatchThrown(run, thr) == CatchBlock([run EXCEPT !.threw = TRUE], SubscriberError, thr)

\* llm.ts 502-503 and 575: an error published inside the try block
EmitErrorInTry(run, error, thr) ==
    LET run1 == Published(run, ErrorEvent(error))
    IN  IF EmitThrows("error", thr) THEN CatchThrown(run1, thr)
        ELSE [run1 EXCEPT !.pc = "failed"]

\* llm.ts 581-592 with the synchronous part of callAnthropic / callOpenAI:
\* the request is built from the live array and fetch is invoked
CallLLM(msgs, run, thr) ==
    IF config.provider = "anthropic"
    THEN [run EXCEPT !.pc = "llm", !.calls = @ + 1,
                     !.request = AnthropicRequest(msgs, toolDefinitions)]
    ELSE IF config.provider = "openai"
    THEN [run EXCEPT !.pc = "llm", !.calls = @ + 1,
                     !.request = OpenAIRequest(msgs, toolDefinitions)]
    ELSE CatchBlock(run, UnknownProviderError(config.provider), thr)

\* llm.ts 518-522 and 574-575: the loop condition, then the next model call
\* or the iteration-limit error
WhileHead(msgs, run, thr) ==
    IF run.iteration < config.maxIterations
    THEN CallLLM(msgs, [run EXCEPT !.iteration = @ + 1], thr)
    ELSE EmitErrorInTry(run, MaxIterationsError(config.maxIterations), thr)

\* llm.ts 486: a copy of the conversation array
GetConversation == messages

\* variant: a user turn that starts the conversation afresh
WithUserTurnOnly(msgs, input) ==
    IF input.userMessage # "" THEN <<Message("user", StringContent(input.userMessage))>>
    ELSE IF "message" \in DOMAIN input THEN <<input.message>>
    ELSE <<>>

\* llm.ts 506-511
WithUserTurn(msgs, input) ==
    IF input.userMessage # "" THEN Append(msgs, Message("user", StringContent(input.userMessage)))
    ELSE IF "message" \in DOMAIN input THEN Append(msgs, input.message)
    ELSE msgs

\* llm.ts 498-522: the input handler up to its first await
Write(input, thr) ==
    /\ node = "agentLoop"
    /\ Len(runs) < MaxRuns
    /\ \/ (Len(runs) + 1) * config.maxIterations <= MaxCalls
       \/ Len(runs) = 0 /\ config.maxIterations = DefaultMaxIterations
    /\ LET apiKey == ResolveApiKey(input)
           run0   == NewRun(apiKey)
           msgs1  == WithUserTurn(messages, input)
           run1   == Published(run0, StartEvent)
       IN  IF KeyMissing(apiKey)
           THEN /\ runs' = Append(runs, EmitErrorInTry(run0, MissingKeyError, thr))
                /\ UNCHANGED messages
           ELSE /\ messages' = msgs1
                /\ runs' = Append(runs,
                       IF EmitThrows("iteration", thr) THEN CatchThrown(run1, thr)
                       ELSE WhileHead(msgs1, run1, thr))
    /\ UNCHANGED <<node, config, listeners, toolDefinitions, toolHandlers, routerVars, requests, emitted, status, graphVars>>

\* variant: a completion event that counts the tool rounds
CompletionEventRounds(run, parsed) ==
    [event |-> "data", response |-> TextOf(parsed.content),
     iterations |-> run.dispatches, stopReason |-> parsed.stopReason]

\* llm.ts 543-549: the payload of the completion event
CompletionEvent(run, parsed) ==
    [event |-> "data", response |-> TextOf(parsed.content),
     iterations |-> run.iteration, stopReason |-> parsed.stopReason]

\* llm.ts 522-555: the model call settles; the response is parsed, stored and
\* published, and the run completes or starts the tool calls
LLMSettles(r, outcome, thr) ==
    /\ node = "agentLoop"
    /\ r \in 1..Len(runs)
    /\ runs[r].pc = "llm"
    /\ LET run    == runs[r]
           parsed == ParseOutcome(config.provider, outcome)
       IN  IF ~parsed.ok
           THEN /\ runs' = [runs EXCEPT ![r] =
                                CatchBlock([run EXCEPT !.fetchFailed = TRUE],
                                           parsed.error, thr)]
                /\ UNCHANGED messages
           ELSE LET msgs1 == Append(messages,
                                    Message("assistant", BlockContent(parsed.content)))
                    run1  == Published(run, [event |-> "iteration",
                                             iteration |-> run.iteration,
                                             phase |-> "llm_response",
                                             toolCalls |-> parsed.toolCalls,
                                             stopReason |-> parsed.stopReason])
                    run2  == Published(run1, CompletionEvent(run, parsed))
                IN  /\ messages' = msgs1
                    /\ runs' = [runs EXCEPT ![r] =
                         IF EmitThrows("iteration", thr) THEN CatchThrown(run1, thr)
                         ELSE IF parsed.stopReason # "tool_use" \/ Len(parsed.toolCalls) = 0
                         THEN IF EmitThrows("data", thr) THEN CatchThrown(run2, thr)
                              ELSE [run2 EXCEPT !.pc = "done"]
                         ELSE [run1 EXCEPT !.pc = "tools", !.dispatches = @ + 1,
                                  !.pending = StartAll(toolHandlers, parsed.toolCalls)]]
    /\ UNCHANGED <<node, config, listeners, toolDefinitions, toolHandlers, routerVars, requests, emitted, status, graphVars>>

\* llm.ts 785-796: one invoked handler returns or throws
HandlerSettles(r, k) ==
    /\ node = "agentLoop"
    /\ r \in 1..Len(runs)
    /\ runs[r].pc = "tools"
    /\ k \in 1..Len(runs[r].pending)
    /\ ~runs[r].pending[k].settled
    /\ runs' = [runs EXCEPT ![r].pending = Settled(@, k)]
    /\ UNCHANGED <<node, config, listeners, messages, toolDefinitions, toolHandlers,
                   routerVars, requests, emitted, status, graphVars>>

\* llm.ts 555-575: Promise.all resolves; the results are stored and published,
\* and the loop goes round
ToolsJoin(r, thr) ==
    /\ node = "agentLoop"
    /\ r \in 1..Len(runs)
    /\ runs[r].pc = "tools"
    /\ AllSettled(runs[r].pending)
    /\ LET run         == runs[r]
           toolResults == JoinResults(run.pending)
           msgs1 == Append(messages,
                           Message("user", BlockContent(Map(toolResults, ToolResultBlock))))
           run1  == Published(run, [event |-> "iteration", iteration |-> run.iteration,
                                    phase |-> "tool_results", toolResults |-> toolResults])
       IN  /\ messages' = msgs1
           /\ runs' = [runs EXCEPT ![r] =
                  IF EmitThrows("iteration", thr) THEN CatchThrown(run1, thr)
                  ELSE WhileHead(msgs1, run1, thr)]
    /\ UNCHANGED <<node, config, listeners, toolDefinitions, toolHandlers, routerVars, requests, emitted, status, graphVars>>

\* the longest list of tool definitions the environment builds
MaxDefinitions == 2

\* the tools registered and unregistered on a loop after its construction
RegisteredNames == {"t1", "t2"}

\* the loops on which the environment calls the agent-specific methods
CallsMethods ==
    /\ node = "agentLoop"
    /\ config.provider = "anthropic" /\ config.apiKey # NoKey
    /\ config.maxIterations <= MaxIter
    /\ ~HasThrower("iteration") /\ ~HasThrower("data") /\ ~HasThrower("error")

\* llm.ts 474: toolDefinitions.push(definition)
PushDefinition(defs, name) == Append(defs, name)

\* llm.ts 473-476, called before the first user turn
RegisterTool(name, handler) ==
    /\ CallsMethods /\ Len(runs) = 0
    /\ Len(toolDefinitions) < MaxDefinitions
    /\ toolDefinitions' = PushDefinition(toolDefinitions, name)
    /\ toolHandlers' = [n \in DOMAIN toolHandlers \cup {name} |->
                           IF n = name THEN handler ELSE toolHandlers[n]]
    /\ UNCHANGED <<node, config, listeners, messages, runs, routerVars, requests,
                   emitted, status, graphVars>>

\* llm.ts 479-482: findIndex and splice take out the first definition of the name
SpliceFirst(defs, name) ==
    IF \E i \in 1..Len(defs) : defs[i] = name
    THEN LET index == CHOOSE i \in 1..Len(defs) :
                         /\ defs[i] = name
                         /\ \A j \in 1..(i - 1) : defs[j] # name
         IN  SubSeq(defs, 1, index - 1) \o SubSeq(defs, index + 1, Len(defs))
    ELSE defs

\* llm.ts 478-484, called before the first user turn
UnregisterTool(name) ==
    /\ CallsMethods /\ Len(runs) = 0
    /\ toolDefinitions' = SpliceFirst(toolDefinitions, name)
    /\ toolHandlers' = [n \in DOMAIN toolHandlers \ {name} |-> toolHandlers[n]]
    /\ UNCHANGED <<node, config, listeners, messages, runs, routerVars, requests,
                   emitted, status, graphVars>>

\* llm.ts 489-493: the array is emptied and a leading system message put back
ConversationCleared(msgs) ==
    IF Len(msgs) > 0 /\ msgs[1].role = "system" THEN <<msgs[1]>> ELSE <<>>

\* llm.ts 488-494, called while the first run waits for the model or its tools
ClearConversation ==
    /\ CallsMethods
    /\ Len(runs) = 1 /\ runs[1].pc \in {"llm", "tools"}
    /\ messages' = ConversationCleared(messages)
    /\ UNCHANGED <<node, config, listeners, toolDefinitions, toolHandlers, runs,
                   routerVars, requests, emitted, status, graphVars>>


(***************************************************************************)
(* The environment of the agent loop: configurations, user turns and what  *)
(* the provider answers.                                                   *)
(***************************************************************************)
Providers == {"anthropic", "openai", "other"}

ApiKeys == {NoKey, "test-key"}

SystemPrompts == {"", "You are helpful"}

SunnyTool == ReturnsString("sunny")

CityTool == ReturnsValue(CityObject)

CrashingTool == Throws("Tool crashed!")

\* a record or function with no key
NoHandlers == [n \in {} |-> NoHandler]

\* set.tools with set.toolHandlers
ToolSetups ==
    {[tools |-> <<>>, handlers |-> NoHandlers],
     [tools |-> <<"t1">>, handlers |-> [n \in {"t1"} |-> SunnyTool]],
     [tools |-> <<"t1", "t2">>,
      handlers |-> [n \in {"t1", "t2"} |-> IF n = "t1" THEN CrashingTool ELSE CityTool]]}

AllOk == [e \in Events |-> <<"ok">>]

\* the subscribers registered with on(): per event, handlers that return and
\* handlers that throw
ListenerSetups ==
    {AllOk,
     [AllOk EXCEPT !["iteration"] = <<"throw", "ok">>],
     [AllOk EXCEPT !["data"] = <<"throw", "ok">>],
     [AllOk EXCEPT !["error"] = <<"throw", "ok">>]}

\* a turn that carries neither a user message nor a message
EmptyTurn == [apiKey |-> NoKey, userMessage |-> ""]

UserTurns ==
    {[apiKey |-> NoKey, userMessage |-> "Hello"],
     EmptyTurn,
     [apiKey |-> "test-key", userMessage |-> "",
      message |-> Message("user", StringContent("Hello"))]}

UseA == ToolUseBlock("a", "t1", CityObject)

UseB == ToolUseBlock("b", "t2", EmptyObject)

AnthropicBodies ==
    {[content |-> <<TextBlock("Hi")>>, stop_reason |-> "end_turn"],
     [content |-> <<TextBlock("Let me check"), UseA, UseB>>, stop_reason |-> "tool_use"],
     [content |-> <<UseA>>, stop_reason |-> "max_tokens"],
     [content |-> <<TextBlock("Hi")>>, stop_reason |-> "tool_use"],
     [stop_reason |-> "end_turn"]}

OpenAICall(b, arguments) ==
    [id |-> b.id, type |-> "function",
     function |-> [name |-> b.name, arguments |-> arguments]]

OpenAIBody(content, calls, finish) ==
    [choices |-> <<[message |-> IF Len(calls) = 0
                                THEN [role |-> "assistant", content |-> content]
                                ELSE [role |-> "assistant", content |-> content,
                                      tool_calls |-> calls],
                    finish_reason |-> finish]>>]

OpenAIBodies ==
    {OpenAIBody(StringContent("Hi"), <<>>, "stop"),
     OpenAIBody(StringContent("Let me check"),
                <<OpenAICall(UseA, JSONStringify(UseA.input)),
                  OpenAICall(UseB, JSONStringify(UseB.input))>>, "tool_calls"),
     OpenAIBody(Null, <<OpenAICall(UseA, "{}")>>, "length"),
     OpenAIBody(StringContent("Hi"), <<>>, "tool_calls"),
     OpenAIBody(Null, <<OpenAICall(UseA, "{\"city\":")>>, "tool_calls")}

NoBody == [none |-> TRUE]

FetchOutcomes(provider) ==
    {TransportThrows, HttpResponse(FALSE, 500, "Internal Server Error", NoBody)}
    \cup {HttpResponse(TRUE, 200, "", b) :
            b \in IF provider = "anthropic" THEN AnthropicBodies ELSE OpenAIBodies}

\* the turns written after n earlier ones: the empty turn is written to a
\* fresh loop only
TurnsAfter(n) == IF n = 0 THEN UserTurns ELSE UserTurns \ {EmptyTurn}

\* set.maxIterations of 1..MaxIter with every provider, credential, subscriber
\* and tool setup; set.maxIterations of 0 with one of each
AgentSetups ==
    {[config |-> c, listeners |-> ls, systemPrompt |-> sp, tools |-> ts] :
        c \in [provider : Providers, apiKey : ApiKeys,
               maxIterations : {ConfigMaxIterations(m) : m \in 1..MaxIter}],
        ls \in ListenerSetups, sp \in SystemPrompts, ts \in ToolSetups}
    \cup
    {[config |-> [provider |-> "anthropic", apiKey |-> "test-key",
                  maxIterations |-> ConfigMaxIterations(0)],
      listeners |-> AllOk, systemPrompt |-> "",
      tools |-> [tools |-> <<"t1">>, handlers |-> [n \in {"t1"} |-> SunnyTool]]]}

\* llm.ts 407-426: the agent loop after construction
AgentInit ==
    /\ node = "agentLoop"
    /\ \E set \in AgentSetups :
          /\ config = set.config
          /\ listeners = set.listeners
          /\ messages = IF set.systemPrompt # ""
                        THEN <<Message("system", StringContent(set.systemPrompt))>>
                        ELSE <<>>
          /\ toolDefinitions = set.tools.tools /\ toolHandlers = set.tools.handlers
    /\ runs = <<>>
    /\ tools = NoHandlers /\ batches = <<>> /\ requests = <<>> /\ emitted = <<>>
    /\ status = "paused" /\ workflow = <<>> /\ compileContext = NoContext

AgentNext ==
    \/ \E input \in TurnsAfter(Len(runs)) : \E thr \in ThrowChoices : Write(input, thr)
    \/ \E r \in 1..Len(runs) : \E outcome \in FetchOutcomes(config.provider) :
          \E thr \in ThrowChoices : LLMSettles(r, outcome, thr)
    \/ \E r \in 1..Len(runs) : \E k \in 1..Len(runs[r].pending) : HandlerSettles(r, k)
    \/ \E r \in 1..Len(runs) : \E thr \in ThrowChoices : ToolsJoin(r, thr)
    \/ \E name \in RegisteredNames : RegisterTool(name, SunnyTool)
    \/ \E name \in RegisteredNames : UnregisterTool(name)
    \/ ClearConversation


(***************************************************************************)
(* The tool router (toolRouter.ts 23-138).                                 *)
(***************************************************************************)
RouterCalls ==
    {ToolCall("a", "t1", CityObject), ToolCall("b", "t2", EmptyObject),
     ToolCall("c", "toString", EmptyObject), ToolCall("d", "search", EmptyObject)}

\* the toolCalls arrays written to the router, the empty one included
RouterBatches == UNION {[1..n -> RouterCalls] : n \in 0..MaxBatch}

\* a handler with no return statement
SilentTool == ReturnsUndefined

RouterHandlers == {SunnyTool, CityTool, CrashingTool, SilentTool}

\* the handlers registered under name: the silent one is registered as t2 only
RegisteredAs(name) == IF name = "t2" THEN RouterHandlers ELSE RouterHandlers \ {SilentTool}

\* the router publishes "data" only
RouterListenerSetups == {AllOk, [AllOk EXCEPT !["data"] = <<"throw", "ok">>]}

\* toolRouter.ts 23-25: the router after construction
RouterInit ==
    /\ node = "toolRouter"
    /\ config = [provider |-> "none", apiKey |-> NoKey]
    /\ listeners \in RouterListenerSetups
    /\ \E ts \in ToolSetups : tools = ts.handlers
    /\ batches = <<>>
    /\ messages = <<>> /\ toolDefinitions = <<>> /\ toolHandlers = NoHandlers
    /\ runs = <<>> /\ requests = <<>> /\ emitted = <<>>
    /\ status = "paused" /\ workflow = <<>> /\ compileContext = NoContext

\* toolRouter.ts 72-74
RouterRegisterTool(name, handler) ==
    /\ node = "toolRouter"
    /\ tools' = [n \in DOMAIN tools \cup {name} |-> IF n = name THEN handler ELSE tools[n]]
    /\ UNCHANGED <<node, config, listeners, agentVars, batches, requests, emitted, status, graphVars>>

\* toolRouter.ts 76-78
RouterUnregisterTool(name) ==
    /\ node = "toolRouter"
    /\ tools' = [n \in DOMAIN tools \ {name} |-> tools[n]]
    /\ UNCHANGED <<node, config, listeners, agentVars, batches, requests, emitted, status, graphVars>>

\* toolRouter.ts 80
GetTools == DOMAIN tools

\* toolRouter.ts 84-95: the input handler up to its await; it has no try
\* block, so a throwing data handler rejects its promise
RouterWrite(toolCalls, thr) ==
    /\ node = "toolRouter"
    /\ Len(batches) < MaxDispatches
    /\ batches' = Append(batches,
          IF Len(toolCalls) = 0
          THEN [pc |-> "done", toolCalls |-> toolCalls, registered |-> GetTools,
                pending |-> <<>>,
                trace |-> <<[event |-> "data", results |-> <<>>,
                             hasToolCalls |-> FALSE]>>,
                rejected |-> EmitThrows("data", thr)]
          ELSE [pc |-> "tools", toolCalls |-> toolCalls, registered |-> GetTools,
                pending |-> StartAll(tools, toolCalls), trace |-> <<>>,
                rejected |-> FALSE])
    /\ UNCHANGED <<node, config, listeners, agentVars, tools, requests, emitted, status, graphVars>>

\* toolRouter.ts 106-118: one invoked handler returns or throws
RouterHandlerSettles(d, k) ==
    /\ node = "toolRouter"
    /\ d \in 1..Len(batches)
    /\ batches[d].pc = "tools"
    /\ k \in 1..Len(batches[d].pending)
    /\ ~batches[d].pending[k].settled
    /\ batches' = [batches EXCEPT ![d].pending = Settled(@, k)]
    /\ UNCHANGED <<node, config, listeners, agentVars, tools, requests, emitted, status, graphVars>>

\* toolRouter.ts 94, 122-134: Promise.all resolves and the results are published
RouterJoin(d, thr) ==
    /\ node = "toolRouter"
    /\ d \in 1..Len(batches)
    /\ batches[d].pc = "tools"
    /\ AllSettled(batches[d].pending)
    /\ LET results == JoinResults(batches[d].pending)
       IN  batches' = [batches EXCEPT ![d] =
              [@ EXCEPT !.pc = "done",
                        !.trace = Append(@, [event |-> "data", results |-> results,
                                             contentBlocks |-> Map(results, ToolResultBlock),
                                             hasToolCalls |-> TRUE]),
                        !.rejected = EmitThrows("data", thr)]]
    /\ UNCHANGED <<node, config, listeners, agentVars, tools, requests, emitted, status, graphVars>>

RouterNext ==
    \/ \E n \in {"t1", "t2"} : \E h \in RegisteredAs(n) : RouterRegisterTool(n, h)
    \/ \E n \in {"t1", "t2"} : RouterUnregisterTool(n)
    \/ \E toolCalls \in RouterBatches : \E thr \in ThrowChoices :
          RouterWrite(toolCalls, thr)
    \/ \E d \in 1..Len(batches) : \E k \in 1..Len(batches[d].pending) :
          RouterHandlerSettles(d, k)
    \/ \E d \in 1..Len(batches) : \E thr \in ThrowChoices : RouterJoin(d, thr)

(***************************************************************************)
(* The LLM node (llm.ts 181-380).                                          *)
(***************************************************************************)
LLMMissingKeyError == Error("API key is required for LLM node")

\* the message lists written to the LLM node
LLMMessageLists ==
    {<<Message("user", StringContent("Hello"))>>,
     <<Message("system", StringContent("You are helpful")),
       Message("user", StringContent("Hello"))>>,
     <<Message("system", StringContent("You are helpful")),
       Message("user", StringContent("Hello")),
       Message("system", StringContent("Be brief"))>>,
     <<Message("assistant", StringContent("Hi"))>>,
     <<Message("system", StringContent(""))>>}

LLMInputs == {[apiKey |-> k, messages |-> ms] : k \in ApiKeys, ms \in LLMMessageLists}

\* llm.ts 182-191: the LLM node after construction
LLMInit ==
    /\ node = "llm"
    /\ config \in [provider : Providers, apiKey : ApiKeys]
    /\ listeners \in ListenerSetups
    /\ requests = <<>>
    /\ messages = <<>> /\ toolDefinitions = <<>> /\ toolHandlers = NoHandlers
    /\ runs = <<>> /\ tools = NoHandlers /\ batches = <<>> /\ emitted = <<>>
    /\ status = "paused" /\ workflow = <<>> /\ compileContext = NoContext

\* llm.ts 239-248: one invocation of the input handler, with the messages of
\* its input
NewRequest(apiKey, msgs) ==
    [pc |-> "start", apiKey |-> apiKey, calls |-> 0, trace |-> <<>>,
     rejected |-> FALSE, threw |-> FALSE, input |-> msgs,
     request |-> [messages |-> <<>>, tools |-> <<>>]]

\* llm.ts 239-259 with the synchronous part of callAnthropic / callOpenAI
LLMWrite(input, thr) ==
    /\ node = "llm"
    /\ Len(requests) < MaxRequests
    /\ LET apiKey == ResolveApiKey(input)
           req0   == NewRequest(apiKey, input.messages)
       IN  requests' = Append(requests,
              IF KeyMissing(apiKey) THEN EmitErrorInTry(req0, LLMMissingKeyError, thr)
              ELSE IF config.provider = "anthropic"
              THEN [req0 EXCEPT !.pc = "llm", !.calls = 1,
                        !.request = AnthropicRequest(input.messages, <<>>)]
              ELSE IF config.provider = "openai"
              THEN [req0 EXCEPT !.pc = "llm", !.calls = 1,
                        !.request = OpenAIRequest(input.messages, <<>>)]
              ELSE EmitErrorInTry(req0, UnknownProviderError(config.provider), thr))
    /\ UNCHANGED <<node, config, listeners, agentVars, routerVars, emitted, status, graphVars>>

\* llm.ts 289-328 and 346-376: the fetch settles; the parsed response is
\* published as data, a failure goes to the catch block
LLMNodeSettles(q, outcome, thr) ==
    /\ node = "llm"
    /\ q \in 1..Len(requests)
    /\ requests[q].pc = "llm"
    /\ LET parsed == ParseOutcome(config.provider, outcome)
           req1   == Published(requests[q],
                               [event |-> "data", content |-> parsed.content,
                                text |-> TextOf(parsed.content),
                                toolCalls |-> parsed.toolCalls,
                                stopReason |-> parsed.stopReason])
       IN  requests' = [requests EXCEPT ![q] =
              IF ~parsed.ok THEN CatchBlock(@, parsed.error, thr)
              ELSE IF EmitThrows("data", thr) THEN CatchThrown(req1, thr)
              ELSE [req1 EXCEPT !.pc = "done"]]
    /\ UNCHANGED <<node, config, listeners, agentVars, routerVars, emitted, status, graphVars>>

LLMNext ==
    \/ \E input \in LLMInputs : \E thr \in ThrowChoices : LLMWrite(input, thr)
    \/ \E q \in 1..Len(requests) : \E outcome \in FetchOutcomes(config.provider) :
          \E thr \in ThrowChoices : LLMNodeSettles(q, outcome, thr)

(***************************************************************************)
(* One node is constructed and then driven.                                *)
(***************************************************************************)
(***************************************************************************)
(* The memory node (memory.ts 24-122).                                     *)
(***************************************************************************)
\* memory.ts 73-77: forEach calls the handlers in registration order and has
\* no try block: the handlers up to the first one that throws are invoked
NodeInvoked(event, thr) ==
    LET hs == listeners[event]
        FirstThrower == CHOOSE i \in 1..Len(hs) :
                            /\ hs[i] = "throw"
                            /\ \A j \in 1..(i - 1) : hs[j] # "throw"
    IN  IF EmitThrows(event, thr) THEN [i \in 1..FirstThrower |-> i]
        ELSE [i \in 1..Len(hs) |-> i]

\* memory.ts 73-77: one call of node.emit(event, {messages}) made by method op:
\* the payload, the handlers invoked and whether the call threw to its caller
NodeEmit(op, event, payload, thr) ==
    [op |-> op, event |-> event, messages |-> payload,
     invoked |-> NodeInvoked(event, thr), threw |-> EmitThrows(event, thr)]

\* memory.ts 29-31: the message pushed for set.systemPrompt
SystemMessage(prompt) == Message("system", StringContent(prompt))

\* memory.ts 24-31: the memory after construction
MemoryInit ==
    /\ node = "memory"
    /\ config \in [maxMessages : 0..MaxKept, systemPrompt : SystemPrompts]
    /\ listeners \in RouterListenerSetups
    /\ messages = IF config.systemPrompt # "" THEN <<SystemMessage(config.systemPrompt)>>
                  ELSE <<>>
    /\ emitted = <<>>
    /\ status = "paused" /\ workflow = <<>> /\ compileContext = NoContext
    /\ toolDefinitions = <<>> /\ toolHandlers = NoHandlers /\ runs = <<>>
    /\ tools = NoHandlers /\ batches = <<>> /\ requests = <<>>

\* memory.ts 80
GetMessages == messages

\* Array.prototype.splice(start, deleteCount): the array without the
\* deleteCount elements that follow the first start ones
Splice(seq, start, deleteCount) ==
    LET n == IF deleteCount > Len(seq) - start THEN Len(seq) - start ELSE deleteCount
    IN  SubSeq(seq, 1, start) \o SubSeq(seq, start + n + 1, Len(seq))

\* variant: a limit that evicts from the front of the array
EnforceLimitFromFront(msgs) ==
    IF config.maxMessages # 0 /\ Len(msgs) > config.maxMessages
    THEN Splice(msgs, 0, Len(msgs) - config.maxMessages)
    ELSE msgs

\* variant: a limit that evicts the newest messages
EnforceLimitNewest(msgs) ==
    IF config.maxMessages # 0 /\ Len(msgs) > config.maxMessages
    THEN SubSeq(msgs, 1, config.maxMessages)
    ELSE msgs

\* variant: a limit that does not count the pinned system message
EnforceLimitBesidePrompt(msgs) ==
    LET startIndex == IF Len(msgs) > 0 /\ msgs[1].role = "system" THEN 1 ELSE 0
    IN  IF config.maxMessages # 0 /\ Len(msgs) - startIndex > config.maxMessages
        THEN Splice(msgs, startIndex, Len(msgs) - startIndex - config.maxMessages)
        ELSE msgs

\* memory.ts 86-91: the max messages limit, sparing a leading system message
EnforceLimit(msgs) ==
    LET hasSystemPrompt == Len(msgs) > 0 /\ msgs[1].role = "system"
        startIndex == IF hasSystemPrompt THEN 1 ELSE 0
        excess == Len(msgs) - config.maxMessages
    IN  IF config.maxMessages # 0 /\ Len(msgs) > config.maxMessages
        THEN Splice(msgs, startIndex, excess)
        ELSE msgs

\* variant: the data event published before the limit is enforced
AddMessagePayloadEarly(message) == Append(messages, message)

\* memory.ts 94: the payload is a copy of the array after the limit
AddMessagePayload(message) == EnforceLimit(Append(messages, message))

\* memory.ts 82-95
AddMessage(message, thr) ==
    /\ node = "memory"
    /\ Len(emitted) < MaxOps
    /\ messages' = EnforceLimit(Append(messages, message))
    /\ emitted' = Append(emitted, NodeEmit("addMessage", "data", AddMessagePayload(message), thr))
    /\ UNCHANGED <<node, config, listeners, toolDefinitions, toolHandlers, runs,
                   routerVars, requests, status, graphVars>>

\* memory.ts 99-103: what clear leaves in the array
Cleared(msgs) ==
    IF Len(msgs) > 0 /\ msgs[1].role = "system" THEN <<msgs[1]>> ELSE <<>>

\* memory.ts 97-105
Clear(thr) ==
    /\ node = "memory"
    /\ Len(emitted) < MaxOps
    /\ messages' = Cleared(messages)
    /\ emitted' = Append(emitted, NodeEmit("clear", "data", Cleared(messages), thr))
    /\ UNCHANGED <<node, config, listeners, toolDefinitions, toolHandlers, runs,
                   routerVars, requests, status, graphVars>>

\* memory.ts 57-61: resume opens the node and publishes the current messages
Resume(thr) ==
    /\ node = "memory"
    /\ Len(emitted) < MaxOps
    /\ status' = "open"
    /\ emitted' = Append(emitted, NodeEmit("resume", "data", messages, thr))
    /\ UNCHANGED <<node, config, listeners, agentVars, routerVars, requests, graphVars>>

\* a string field of the input that is present and not the empty string
Truthy(input, field) == field \in DOMAIN input /\ input[field] # ""

\* memory.ts 37-39, 109-119: write publishes "input", whose handler adds the
\* message the input carries or clears the memory
MemoryWrite(input, thr) ==
    IF "message" \in DOMAIN input THEN AddMessage(input.message, thr)
    ELSE IF Truthy(input, "userMessage")
    THEN AddMessage(Message("user", StringContent(input.userMessage)), thr)
    ELSE IF Truthy(input, "assistantMessage")
    THEN AddMessage(Message("assistant", StringContent(input.assistantMessage)), thr)
    ELSE "clear" \in DOMAIN input /\ input.clear /\ Clear(thr)

\* the messages handed to addMessage
MemoryMessages ==
    {Message("user", StringContent("Hello")),
     Message("assistant", StringContent("Hi")),
     Message("system", StringContent("Be brief"))}

\* the inputs written to the memory
MemoryInputs ==
    {[message |-> Message("system", StringContent("Be brief"))],
     [userMessage |-> "Hello"],
     [userMessage |-> "", assistantMessage |-> "Hi"],
     [clear |-> TRUE]}

MemoryNext ==
    \/ \E message \in MemoryMessages : \E thr \in ThrowChoices : AddMessage(message, thr)
    \/ \E thr \in ThrowChoices : Clear(thr)
    \/ \E thr \in ThrowChoices : Resume(thr)
    \/ \E input \in MemoryInputs : \E thr \in ThrowChoices : MemoryWrite(input, thr)

(***************************************************************************)
(* The event emitter (EventEmitter.ts 12-39).                              *)
(***************************************************************************)
\* the values published by the callers of emit
EmitValues == {"fine", "bad"}

\* the exception a handler throws, by its message
HandlerError == "handler failed"

\* a handler of kind "throw" throws for every payload but "fine"
Throwing(handler, value) == handler = "throw" /\ value # "fine"

\* EventEmitter.ts 23: handler(data)
Call(event, index, value) ==
    [kind |-> "call", event |-> event, index |-> index, value |-> value]

\* EventEmitter.ts 28: emit('error', error)
Reemit(error) == [kind |-> "emit", event |-> "error", index |-> 0, value |-> error]

\* variant: the exception of an error handler is published on 'error' again
LoggedAndPublished(event, index, error) ==
    [kind |-> "emit", event |-> "error", index |-> index, value |-> error]

\* EventEmitter.ts 26: console.error
Logged(event, index, error) ==
    [kind |-> "log", event |-> event, index |-> index, value |-> error]

RECURSIVE EmitFrom(_, _, _, _)
\* EventEmitter.ts 20-32: forEach from the index-th handler on; every handler
\* is called in a try block, and what it throws is published on 'error', or
\* logged when the event is 'error' itself
EmitFrom(ls, event, value, index) ==
    IF index > Len(ls[event]) THEN <<>>
    ELSE <<Call(event, index, value)>>
         \o (IF ~Throwing(ls[event][index], value) THEN <<>>
             ELSE IF event = "error" THEN <<Logged(event, index, HandlerError)>>
             ELSE <<Reemit(HandlerError)>> \o EmitFrom(ls, "error", HandlerError, 1))
         \o EmitFrom(ls, event, value, index + 1)

RECURSIVE UnguardedFrom(_, _, _, _)
\* variant: forEach with no try block, which ends at the first handler that throws
UnguardedFrom(ls, event, value, index) ==
    IF index > Len(ls[event]) THEN <<>>
    ELSE <<Call(event, index, value)>>
         \o (IF Throwing(ls[event][index], value) THEN <<>>
             ELSE UnguardedFrom(ls, event, value, index + 1))

\* variant: an emit that lets a handler's exception reach its caller
EmitUnguarded(ls, event, value) ==
    [op |-> "emit", event |-> event, value |-> value, registered |-> ls,
     log |-> UnguardedFrom(ls, event, value, 1),
     threw |-> \E i \in 1..Len(ls[event]) : Throwing(ls[event][i], value)]

\* variant: an emit that calls the handlers last registered first
EmitReversed(ls, event, value) ==
    LET n == Len(ls[event])
        rev == [ls EXCEPT ![event] = [i \in 1..n |-> ls[event][n + 1 - i]]]
        Renumber(e) == IF e.kind = "call" /\ e.event = event
                       THEN [e EXCEPT !.index = n + 1 - e.index] ELSE e
        log == EmitFrom(rev, event, value, 1)
    IN  [op |-> "emit", event |-> event, value |-> value, registered |-> ls,
         log |-> [k \in 1..Len(log) |-> Renumber(log[k])], threw |-> FALSE]

\* EventEmitter.ts 19-33: one call of emit(event, value) with the handlers ls:
\* what it did, in order, and whether it threw to its caller
Emit(ls, event, value) ==
    [op |-> "emit", event |-> event, value |-> value, registered |-> ls,
     log |-> EmitFrom(ls, event, value, 1), threw |-> FALSE]

\* EventEmitter.ts 12-13: the emitter after construction
EmitterInit ==
    /\ node = "eventEmitter"
    /\ config = [provider |-> "none", apiKey |-> NoKey]
    /\ listeners = [e \in Events |-> <<>>]
    /\ emitted = <<>>
    /\ status = "paused" /\ workflow = <<>> /\ compileContext = NoContext
    /\ messages = <<>> /\ toolDefinitions = <<>> /\ toolHandlers = NoHandlers
    /\ runs = <<>> /\ tools = NoHandlers /\ batches = <<>> /\ requests = <<>>

\* the handlers registered so far, over all events
Registered(ls) == Len(ls["data"]) + Len(ls["error"]) + Len(ls["iteration"])

\* EventEmitter.ts 15-18
On(event, handler) ==
    /\ node = "eventEmitter"
    /\ Registered(listeners) < MaxHandlers
    /\ listeners' = [listeners EXCEPT ![event] = Append(@, handler)]
    /\ UNCHANGED <<node, config, agentVars, routerVars, requests, emitted, status, graphVars>>

\* EventEmitter.ts 19-33
Publish(event, value) ==
    /\ node = "eventEmitter"
    /\ Len(emitted) < MaxPublishes
    /\ emitted' = Append(emitted, Emit(listeners, event, value))
    /\ UNCHANGED <<node, config, listeners, agentVars, routerVars, requests, status, graphVars>>

EmitterNext ==
    \/ \E event \in Events : \E handler \in {"ok", "throw"} : On(event, handler)
    \/ \E event \in Events : \E value \in EmitValues : Publish(event, value)

(***************************************************************************)
(* The read stream (readStream.ts 5-22), its pipe (pipe.ts 3-15) and the   *)
(* input node built on it (memory.ts 127-137).                              *)
(***************************************************************************)
\* the events of a stream: pipe forwards data, error and close
StreamEvents == Events \cup {"close"}

\* the handler pipe registers for sink k; a sink is a writeStream, whose
\* write and emit never throw (writeStream.ts 9-14)
Forwarder(k) == IF k = 1 THEN "sink1" ELSE "sink2"

Forwarders == {Forwarder(k) : k \in 1..MaxSinks}

\* the sinks the stream was piped to
Connected(ls) == {k \in 1..MaxSinks : \E i \in 1..Len(ls["data"]) : ls["data"][i] = Forwarder(k)}

\* variant: an emit that delivers while the stream is open only
StreamEmitWhenOpen(ls, event, value, st) ==
    [op |-> "emit", event |-> event, value |-> value, registered |-> ls,
     log |-> IF st = "open" THEN EmitFrom(ls, event, value, 1) ELSE <<>>,
     threw |-> FALSE, status |-> st]

\* readStream.ts 6-8: the stream's emit is the emit of its event emitter,
\* which does not read the status; st is the status at the time of the call
StreamEmit(ls, event, value, st) ==
    [op |-> "emit", event |-> event, value |-> value, registered |-> ls,
     log |-> Emit(ls, event, value).log, threw |-> FALSE, status |-> st]

\* readStream.ts 5-9, memory.ts 127-137: a read stream, or an input node, after
\* construction
StreamInit ==
    /\ node = "readStream"
    /\ config \in [type : {"readStream", "input"}]
    /\ listeners = [e \in StreamEvents |-> <<>>]
    /\ status = "paused"
    /\ emitted = <<>>
    /\ workflow = <<>> /\ compileContext = NoContext
    /\ messages = <<>> /\ toolDefinitions = <<>> /\ toolHandlers = NoHandlers
    /\ runs = <<>> /\ tools = NoHandlers /\ batches = <<>> /\ requests = <<>>

\* memory.ts 130-135: the input node is a copy {...rs, trigger} of its read stream;
\* resume and pause assign rs.status, the copy keeps the status it was made with
ObservableStatus == IF config.type = "input" THEN "paused" ELSE status

\* the handlers registered with on() so far, those of pipe left out
Subscribed(ls) ==
    Len(ls["data"]) + Len(ls["error"]) + Len(ls["close"]) + Len(ls["iteration"])
        - 3 * Cardinality(Connected(ls))

\* EventEmitter.ts 15-18
StreamOn(event, handler) ==
    /\ node = "readStream"
    /\ Subscribed(listeners) < MaxSubscribers
    /\ listeners' = [listeners EXCEPT ![event] = Append(@, handler)]
    /\ UNCHANGED <<node, config, agentVars, routerVars, requests, emitted, status, graphVars>>

\* variant: a pipe that forwards values and errors, not the end of the stream
PipeHandlersNoClose(ls, k) ==
    [ls EXCEPT !["data"] = Append(@, Forwarder(k)),
               !["error"] = Append(@, Forwarder(k))]

\* pipe.ts 3-15: the three handlers pipe registers for sink k
PipeHandlers(ls, k) ==
    [ls EXCEPT !["data"] = Append(@, Forwarder(k)),
               !["error"] = Append(@, Forwarder(k)),
               !["close"] = Append(@, Forwarder(k))]

\* readStream.ts 10-13: pipe(writeStream) wires the sink and resumes
StreamPipe(k) ==
    /\ node = "readStream"
    /\ k \notin Connected(listeners)
    /\ listeners' = PipeHandlers(listeners, k)
    /\ status' = "open"
    /\ UNCHANGED <<node, config, agentVars, routerVars, requests, emitted, graphVars>>

\* readStream.ts 14-16
StreamResume ==
    /\ node = "readStream"
    /\ status' = "open"
    /\ UNCHANGED <<node, config, listeners, agentVars, routerVars, requests, emitted,
                   graphVars>>

\* readStream.ts 17-19
StreamPause ==
    /\ node = "readStream"
    /\ status' = "paused"
    /\ UNCHANGED <<node, config, listeners, agentVars, routerVars, requests, emitted,
                   graphVars>>

\* EventEmitter.ts 19-33, memory.ts 132-134 (trigger is emit("data", data))
StreamPublish(event, value) ==
    /\ node = "readStream"
    /\ Len(emitted) < MaxEmits
    /\ emitted' = Append(emitted, StreamEmit(listeners, event, value, status))
    /\ UNCHANGED <<node, config, listeners, agentVars, routerVars, requests, status,
                   graphVars>>

StreamNext ==
    \/ \E event \in {"data", "error"} : \E handler \in {"ok", "throw"} :
          StreamOn(event, handler)
    \/ \E k \in 1..MaxSinks : StreamPipe(k)
    \/ StreamResume
    \/ StreamPause
    \/ \E event \in {"data", "error", "close"} : \E value \in EmitValues :
          StreamPublish(event, value)

(***************************************************************************)
(* The graph compiler, compile.ts (found at input.spec.ts 230-318).        *)
(***************************************************************************)
\* nodes/index.ts (input.spec.ts 319-337): the node types of the workflows
\* compiled here
NodeTypes == {"input", "output"}

\* a descriptor written without an id; `id || ...` treats '' the same way
NoId == ""

\* an `in` entry {node, out}
Edge(n, out) == [kind |-> "edge", node |-> n, out |-> out]

\* an `in` entry [{node, out}, ...]
EdgeList(es) == [kind |-> "list", edges |-> es]

Descriptor(type, id, in) == [type |-> type, id |-> id, in |-> in]

\* the descriptor lists handed to compile: one edge; two producers into one
\* consumer, one with an explicit id; an explicit id that is the next automatic
\* one; a list of edges; an unknown type; one producer on two keys; an edge
\* from a node that does not exist
Workflows ==
    { << Descriptor("input", NoId, <<>>),
         Descriptor("output", NoId, <<[key |-> "data", value |-> Edge("input-1", "data")]>>) >>,
      << Descriptor("input", "a", <<>>),
         Descriptor("input", NoId, <<>>),
         Descriptor("output", NoId, <<[key |-> "x", value |-> Edge("a", "data")],
                                      [key |-> "y", value |-> Edge("input-2", "text")]>>) >>,
      << Descriptor("input", "input-2", <<>>),
         Descriptor("input", NoId, <<>>),
         Descriptor("output", NoId, <<[key |-> "data", value |-> Edge("input-2", "data")]>>) >>,
      << Descriptor("input", NoId, <<>>),
         Descriptor("input", NoId, <<>>),
         Descriptor("output", "out",
                    <<[key |-> "data",
                       value |-> EdgeList(<<Edge("input-1", "data"), Edge("input-2", "data")>>)]>>) >>,
      << Descriptor("input", NoId, <<>>),
         Descriptor("transform", NoId, <<>>) >>,
      << Descriptor("input", NoId, <<>>),
         Descriptor("output", NoId, <<[key |-> "x", value |-> Edge("input-1", "data")],
                                      [key |-> "y", value |-> Edge("input-1", "data")]>>),
         Descriptor("output", NoId, <<[key |-> "x", value |-> Edge("input-1", "text")]>>) >>,
      << Descriptor("output", NoId, <<[key |-> "data", value |-> Edge("input-1", "data")]>>) >> }

\* the values triggered on the input nodes
TriggerValues == {[data |-> "a"], [data |-> "b"], [text |-> "t"]}

\* compile.ts (input.spec.ts 256-265): the context before the first descriptor; a node is named
\* by the position of the descriptor it was made for
NewContext(wf) ==
    [phase |-> "new", error |-> "", nodes |-> <<>>, nodeTypeCounts |-> <<>>,
     wires |-> <<>>, acc |-> [i \in 1..Len(wf) |-> <<>>]]

\* compile.ts (input.spec.ts 274-275): (nodeTypeCounts[type] || 0)
CountOf(counts, type) == IF type \in DOMAIN counts THEN counts[type] ELSE 0

\* compile.ts (input.spec.ts 277-278): `${type}-${nodeTypeCounts[type]}`
AutoId(type, n) == type \o "-" \o ToString(n)

\* variant: a count of the descriptors of the type that carry no id
NodeCountOfUnnamed(ctx, descriptor) ==
    IF descriptor.id # NoId THEN CountOf(ctx.nodeTypeCounts, descriptor.type)
    ELSE CountOf(ctx.nodeTypeCounts, descriptor.type) + 1

\* compile.ts (input.spec.ts 274-275): the count of the descriptor's type, this descriptor included
NodeCount(ctx, descriptor) == CountOf(ctx.nodeTypeCounts, descriptor.type) + 1

RECURSIVE InstantiateFrom(_, _, _)
\* compile.ts (input.spec.ts 267-281): the first forEach, from descriptor i on; it writes the id
\* into the descriptor and stops at a type that is not known
InstantiateFrom(wf, i, ctx) ==
    IF i > Len(wf) THEN [workflow |-> wf, context |-> ctx]
    ELSE IF wf[i].type \notin NodeTypes
    THEN [workflow |-> wf,
          context |-> [ctx EXCEPT !.phase = "threw", !.error = "Node type not found"]]
    ELSE LET n == NodeCount(ctx, wf[i])
             id == IF wf[i].id # NoId THEN wf[i].id ELSE AutoId(wf[i].type, n)
         IN  InstantiateFrom([wf EXCEPT ![i].id = id], i + 1,
                             [ctx EXCEPT !.nodeTypeCounts = (wf[i].type :> n) @@ @,
                                         !.nodes = (id :> i) @@ @])

RECURSIVE EntriesFrom(_, _)
\* compile.ts (input.spec.ts 285-291): the `in` entries of the descriptors, in the order compile
\* visits them, each with the position of its descriptor
EntriesFrom(wf, i) ==
    IF i > Len(wf) THEN <<>>
    ELSE [k \in 1..Len(wf[i].in) |->
             [descriptor |-> i, id |-> wf[i].id, key |-> wf[i].in[k].key,
              value |-> wf[i].in[k].value]]
         \o EntriesFrom(wf, i + 1)

\* compile.ts (input.spec.ts 234-251): transformEvent(acc, nodes[id], key, nodes[value.node],
\* value.out) registers, through pipe, a handler on the producer
Wire(ctx, entry) ==
    [producer |-> ctx.nodes[entry.value.node], consumer |-> ctx.nodes[entry.id],
     key |-> entry.key, out |-> entry.value.out, acc |-> entry.descriptor]

RECURSIVE WireFrom(_, _, _)
\* compile.ts (input.spec.ts 285-315): the second forEach, from entry k on. A list is an object:
\* the first branch reads its .node, which is undefined, and transformEvent
\* calls pipe on nodes[undefined]; so does an edge from an id that names no node
WireFrom(entries, k, ctx) ==
    IF k > Len(entries) THEN [ctx EXCEPT !.phase = "compiled"]
    ELSE IF entries[k].value.kind = "list"
    THEN [ctx EXCEPT !.phase = "threw", !.error = "TypeError"]
    ELSE IF entries[k].value.node \notin DOMAIN ctx.nodes
    THEN [ctx EXCEPT !.phase = "threw", !.error = "TypeError"]
    ELSE WireFrom(entries, k + 1,
                  [ctx EXCEPT !.wires = Append(@, Wire(ctx, entries[k]))])

\* compile.ts (input.spec.ts 254-318)
Compiled(wf) ==
    LET made == InstantiateFrom(wf, 1, NewContext(wf))
    IN  IF made.context.phase = "threw" THEN made
        ELSE [workflow |-> made.workflow,
              context |-> WireFrom(EntriesFrom(made.workflow, 1), 1, made.context)]

\* a descriptor list before it is compiled
GraphInit ==
    /\ node = "compile"
    /\ workflow \in Workflows
    /\ compileContext = NewContext(workflow)
    /\ config = [type |-> "compile"]
    /\ listeners = [e \in StreamEvents |-> <<>>]
    /\ status = "paused"
    /\ emitted = <<>>
    /\ messages = <<>> /\ toolDefinitions = <<>> /\ toolHandlers = NoHandlers
    /\ runs = <<>> /\ tools = NoHandlers /\ batches = <<>> /\ requests = <<>>

\* compile.ts (input.spec.ts 254-318): compile(workflow)
Compile ==
    /\ node = "compile"
    /\ compileContext.phase = "new"
    /\ workflow' = Compiled(workflow).workflow
    /\ compileContext' = Compiled(workflow).context
    /\ UNCHANGED <<node, config, listeners, agentVars, routerVars, requests, emitted, status>>

\* compile.ts (input.spec.ts 244): data[outputKey]
Property(data, key) == IF key \in DOMAIN data THEN data[key] ELSE "undefined"

\* variant: an accumulator of its own for every emission
AccumulateAfresh(acc, key, value) == (key :> value)

\* compile.ts (input.spec.ts 244): event[inputKey] = data[outputKey]
Accumulate(acc, key, value) == (key :> value) @@ acc

RECURSIVE DeliverFrom(_, _, _, _, _)
\* pipe.ts 4-6, compile.ts (input.spec.ts 243-248): the producer's emit calls the handlers of
\* its wires in the order they were registered; each sets its key in the
\* accumulator of its consumer and calls the consumer's write with it
DeliverFrom(wires, k, producer, data, acc) ==
    IF k > Len(wires) THEN [writes |-> <<>>, acc |-> acc]
    ELSE IF wires[k].producer # producer THEN DeliverFrom(wires, k + 1, producer, data, acc)
    ELSE LET w == wires[k]
             next == Accumulate(acc[w.acc], w.key, Property(data, w.out))
             rest == DeliverFrom(wires, k + 1, producer, data, [acc EXCEPT ![w.acc] = next])
         IN  [writes |-> <<[consumer |-> w.consumer, wire |-> k, event |-> next]>> \o rest.writes,
              acc |-> rest.acc]

\* memory.ts 131-135: getNode(id).trigger(data) on an input node of the
\* compiled graph, with the writes it causes
Trigger(id, data) ==
    /\ node = "compile"
    /\ compileContext.phase = "compiled"
    /\ Len(emitted) < MaxTriggers
    /\ id \in DOMAIN compileContext.nodes
    /\ workflow[compileContext.nodes[id]].type = "input"
    /\ LET producer == compileContext.nodes[id]
           done == DeliverFrom(compileContext.wires, 1, producer, data, compileContext.acc)
       IN  /\ emitted' = Append(emitted, [op |-> "trigger", id |-> id, producer |-> producer,
                                          value |-> data, before |-> compileContext.acc,
                                          writes |-> done.writes])
           /\ compileContext' = [compileContext EXCEPT !.acc = done.acc]
    /\ UNCHANGED <<node, config, listeners, agentVars, routerVars, requests, status, workflow>>

GraphNext ==
    \/ Compile
    \/ \E id \in {"a", "input-1", "input-2"} : \E data \in TriggerValues : Trigger(id, data)

Init ==
    \/ AgentInit \/ RouterInit \/ LLMInit \/ MemoryInit \/ EmitterInit \/ StreamInit
    \/ GraphInit

Next ==
    \/ AgentNext \/ RouterNext \/ LLMNext \/ MemoryNext \/ EmitterNext \/ StreamNext
    \/ GraphNext

Spec == Init /\ [][Next]_vars

\* the pending promise of run r settles and the event loop runs the
\* continuation of the handler
RunStep(r) ==
    /\ node = "agentLoop"
    /\ \/ \E outcome \in FetchOutcomes(config.provider) : \E thr \in ThrowChoices :
             LLMSettles(r, outcome, thr)
       \/ \E k \in 1..MaxBatch : HandlerSettles(r, k)
       \/ \E thr \in ThrowChoices : ToolsJoin(r, thr)

BatchStep(d) ==
    \/ \E k \in 1..MaxBatch : RouterHandlerSettles(d, k)
    \/ \E thr \in ThrowChoices : RouterJoin(d, thr)

RequestStep(q) ==
    /\ node = "llm"
    /\ \E outcome \in FetchOutcomes(config.provider) : \E thr \in ThrowChoices :
          LLMNodeSettles(q, outcome, thr)

\* every model call and every invoked tool handler settles, and the event
\* loop runs the continuation of a settled promise
Fairness ==
    /\ \A r \in 1..MaxRuns : WF_vars(RunStep(r))
    /\ \A d \in 1..MaxDispatches : WF_vars(BatchStep(d))
    /\ \A q \in 1..MaxRequests : WF_vars(RequestStep(q))

FairSpec == Spec /\ Fairness


(***************************************************************************)
(* Properties of the agent loop, the tool router and the LLM node.         *)
(***************************************************************************)
Halted(run) == run.pc \in {"done", "failed"}

IsResponse(ev) == ev.event = "iteration" /\ ev.phase = "llm_response"

IsToolResults(ev) == ev.event = "iteration" /\ ev.phase = "tool_results"

IsTerminal(ev) == ev.event \in {"data", "error"}

IsErrorEvent(ev) == ev.event = "error"

AsksForTools(ev) == ev.stopReason = "tool_use" /\ Len(ev.toolCalls) > 0

Responses(run) == SelectSeq(run.trace, IsResponse)

TerminalEvents(run) == SelectSeq(run.trace, IsTerminal)

Holds(seq, x) == \E i \in 1..Len(seq) : seq[i] = x

IsPrefix(s, t) == Len(s) <= Len(t) /\ \A i \in 1..Len(s) : s[i] = t[i]

\* C1: a run makes at most maxIterations model calls, and a halted run whose
\* every model call was answered with stop reason tool_use and a non-empty call
\* list made exactly maxIterations calls and published the error
\* 'Max iterations (M) reached'.
C1_IterationCap ==
    node = "agentLoop" =>
        \A r \in 1..Len(runs) :
            LET run == runs[r]
                M   == config.maxIterations
                rs  == Responses(run)
            IN  /\ run.calls <= M
                /\ (/\ Halted(run)
                    /\ run.calls >= 1
                    /\ Len(rs) = run.calls
                    /\ \A i \in 1..Len(rs) : AsksForTools(rs[i]))
                   => /\ run.calls = M
                      /\ Holds(run.trace, ErrorEvent(MaxIterationsError(M)))

\* the terminal events of a run: none while it is in flight, and exactly one,
\* a final data event or an error event, once it has halted without a
\* subscriber having thrown
OneTerminalEvent(run) ==
    LET te == TerminalEvents(run)
        rs == Responses(run)
    IN  /\ ~Halted(run) => Len(te) = 0
        /\ (Halted(run) /\ ~run.threw) =>
              /\ Len(te) = 1
              /\ te[1] = run.trace[Len(run.trace)]
              /\ te[1].event = "data" =>
                    /\ run.pc = "done"
                    /\ Len(rs) > 0
                    /\ (te[1].stopReason # "tool_use" \/ Len(rs[Len(rs)].toolCalls) = 0)
              /\ te[1].event = "error" => run.pc = "failed"

\* C2: when every model call and every tool handler settles, every run halts
\* (again and again no run is in flight), and a run in which no subscriber
\* threw halts with exactly one terminal
\* event: one final data event (stop reason other than tool_use, or an empty
\* call list) or one error event.
C2_RunHalts ==
    /\ [](\A r \in 1..Len(runs) : OneTerminalEvent(runs[r]))
    /\ []<>(\A r \in 1..Len(runs) : Halted(runs[r]))

\* a run that went through a tool round and then completed with its one data event
C2_Witness ==
    \E r \in 1..Len(runs) :
        /\ runs[r].pc = "done" /\ ~runs[r].threw
        /\ runs[r].dispatches = 1 /\ runs[r].calls = 2
        /\ Len(TerminalEvents(runs[r])) = 1

HasToolUse(m) ==
    /\ m.role = "assistant"
    /\ ~IsString(m.content)
    /\ Len(Filter(m.content.blocks, IsToolUse)) > 0

\* message `answer` holds exactly one tool_result block per tool_use block of
\* message m, in the same order and with the same ids
Answers(answer, m) ==
    LET uses == Filter(m.content.blocks, IsToolUse)
    IN  /\ answer.role = "user"
        /\ ~IsString(answer.content)
        /\ Len(answer.content.blocks) = Len(uses)
        /\ \A k \in 1..Len(uses) :
              /\ IsToolResult(answer.content.blocks[k])
              /\ answer.content.blocks[k].tool_use_id = uses[k].id

\* C3: whenever no run is in flight, every assistant message of the
\* conversation that contains tool_use blocks is immediately followed by a user
\* message with one matching tool_result block per tool_use block, in order.
C3_ToolUseAnswered ==
    (node = "agentLoop" /\ \A r \in 1..Len(runs) : Halted(runs[r])) =>
        \A i \in 1..Len(GetConversation) :
            HasToolUse(GetConversation[i]) =>
                /\ i < Len(GetConversation)
                /\ Answers(GetConversation[i + 1], GetConversation[i])

InCallOrder(toolCalls, results) ==
    /\ Len(results) = Len(toolCalls)
    /\ \A k \in 1..Len(toolCalls) : results[k].tool_use_id = toolCalls[k].id

\* C4: the results a dispatch publishes have the length of the batch and
\* results[k].tool_use_id = toolCalls[k].id for every k, in whatever order the
\* handlers completed (tool router and executeTools of the agent loop).
C4_ResultsInCallOrder ==
    /\ \A d \in 1..Len(batches) :
          batches[d].pc = "done" =>
              InCallOrder(batches[d].toolCalls, batches[d].trace[1].results)
    /\ \A r \in 1..Len(runs) : \A i \in 1..Len(runs[r].trace) :
          IsToolResults(runs[r].trace[i]) =>
              /\ i > 1
              /\ IsResponse(runs[r].trace[i - 1])
              /\ InCallOrder(runs[r].trace[i - 1].toolCalls, runs[r].trace[i].toolResults)

\* a published batch of two calls of which the second completed first
C4_Witness ==
    \E d \in 1..Len(batches) :
        /\ batches[d].pc = "done"
        /\ Len(batches[d].toolCalls) = 2
        /\ batches[d].pending[1].rank = 2
        /\ batches[d].pending[2].rank = 1
        /\ batches[d].toolCalls[1].id # batches[d].toolCalls[2].id

ToolResultEvents(run) == SelectSeq(run.trace, IsToolResults)

\* C5: a dispatch of a non-empty batch publishes exactly one result event, and
\* only once every handler of the batch has settled; it publishes no error
\* event and as many results as calls whatever the handlers did, and it
\* rejects only when a subscriber of the result event throws.
C5_JoinAlwaysSucceeds ==
    /\ \A d \in 1..Len(batches) :
          LET b == batches[d]
          IN  Len(b.toolCalls) > 0 =>
                /\ b.pc = "tools" => b.trace = <<>> /\ ~b.rejected
                /\ b.pc = "done" =>
                      /\ AllSettled(b.pending)
                      /\ Len(b.trace) = 1
                      /\ b.trace[1].event = "data"
                      /\ Len(b.trace[1].results) = Len(b.toolCalls)
                      /\ b.rejected => HasThrower("data")
    /\ \A r \in 1..Len(runs) :
          LET run == runs[r]
              tr  == ToolResultEvents(run)
          IN  /\ Len(tr) = run.dispatches - (IF run.pc = "tools" THEN 1 ELSE 0)
              /\ run.pc = "tools" => ~Halted(run) /\ Len(TerminalEvents(run)) = 0
              /\ \A i \in 1..Len(tr) :
                    /\ tr[i].iteration = i
                    /\ Len(tr[i].toolResults) = Len(Responses(run)[i].toolCalls)

\* a published batch with a handler that threw and a call without handler
C5_Witness ==
    \E d \in 1..Len(batches) :
        /\ batches[d].pc = "done"
        /\ Len(batches[d].trace) = 1
        /\ \E k, j \in 1..Len(batches[d].pending) :
              /\ batches[d].pending[k].handler.kind = "throw"
              /\ batches[d].pending[j].handler = NoHandler

\* the request of a model call carries the result of a tool call
Carries(request, result) ==
    IF config.provider = "anthropic"
    THEN \E i \in 1..Len(request.messages) :
            /\ request.messages[i].role = "user"
            /\ ~IsString(request.messages[i].content)
            /\ Holds(request.messages[i].content.blocks, ToolResultBlock(result))
    ELSE Holds(request.messages, OpenAIToolMessage(ToolResultBlock(result)))

InConversation(result) ==
    \E i \in 1..Len(GetConversation) :
        /\ GetConversation[i].role = "user"
        /\ ~IsString(GetConversation[i].content)
        /\ Holds(GetConversation[i].content.blocks, ToolResultBlock(result))

\* the calls of the latest dispatch of run r whose handler threw
ThrownCalls(r) ==
    {k \in 1..Len(runs[r].pending) :
        runs[r].pending[k].settled /\ runs[r].pending[k].handler.kind = "throw"}

ErrorResultOf(p) == ToolError(p.call.id, "Error: " \o p.handler.message)

C7_MissingHandler ==
    \A d \in 1..Len(batches) : \A k \in 1..Len(batches[d].pending) :
        LET b == batches[d]
            p == b.pending[k]
        IN  /\ p.call = b.toolCalls[k]
            /\ p.call.name \notin b.registered =>
                  /\ p.handler = NoHandler
                  /\ p.settled
                  /\ p.result = NotFoundResult(p.call)
                  /\ p.result.is_error
            /\ p.call.name \in b.registered => p.handler \in RouterHandlers

\* C8: a user turn or request without credential (neither in the input nor in
\* the configuration) publishes the missing-key error and makes no model call.
C8_NoKeyNoCall ==
    /\ \A r \in 1..Len(runs) :
          runs[r].apiKey = NoKey =>
              /\ runs[r].calls = 0 /\ runs[r].dispatches = 0
              /\ runs[r].pc = "failed"
              /\ runs[r].trace[1] = ErrorEvent(MissingKeyError)
    /\ \A q \in 1..Len(requests) :
          requests[q].apiKey = NoKey =>
              /\ requests[q].calls = 0
              /\ requests[q].pc = "failed"
              /\ requests[q].trace[1] = ErrorEvent(LLMMissingKeyError)

\* a run rejected for its missing credential next to an earlier run that
\* brought its own credential
C8_Witness ==
    /\ node = "agentLoop"
    /\ config.apiKey = NoKey
    /\ Len(runs) = 2
    /\ runs[1].apiKey # NoKey /\ runs[1].calls = 1
    /\ runs[2].apiKey = NoKey /\ runs[2].pc = "failed"

FailedCall(run) ==
    /\ run.pc = "failed"
    /\ \E i \in 1..Len(run.trace) : IsErrorEvent(run.trace[i])

\* C9: a model call that fails (non-2xx response or transport error) ends the
\* run with a published error; afterwards the run makes no model call, so the
\* failed call is not retried, and dispatches no tool batch.
C9_FailedCallEndsRun ==
    /\ [](/\ \A r \in 1..Len(runs) :
               runs[r].fetchFailed =>
                   FailedCall(runs[r]) /\ runs[r].calls = runs[r].iteration
          /\ \A q \in 1..Len(requests) :
               (requests[q].pc = "failed" /\ requests[q].calls = 1) =>
                   FailedCall(requests[q]))
    /\ [][/\ \A r \in 1..Len(runs) :
               runs[r].fetchFailed =>
                   /\ runs'[r].calls = runs[r].calls
                   /\ runs'[r].dispatches = runs[r].dispatches
                   /\ runs'[r].pc = "failed"
          /\ \A q \in 1..Len(requests) :
               requests[q].pc = "failed" => requests'[q] = requests[q]]_vars

\* a run whose second model call failed, after a tool round
C9_Witness ==
    \E r \in 1..Len(runs) :
        /\ runs[r].fetchFailed
        /\ runs[r].calls = 2 /\ runs[r].dispatches = 1
        /\ runs[r].pc = "failed"

\* C10: the step in which a run fails, and every step after a run has failed,
\* leaves the messages appended so far in the conversation, unchanged and in
\* order.
C10_ConversationSurvivesFailure ==
    [][(\E r \in 1..Len(runs') : runs'[r].pc = "failed") =>
          IsPrefix(GetConversation, GetConversation')]_vars

\* a failed run behind a conversation that holds the turns of a tool round
C10_Witness ==
    \E r \in 1..Len(runs) :
        /\ runs[r].pc = "failed"
        /\ runs[r].dispatches = 1
        /\ Len(GetConversation) >= 3
        /\ \E i \in 1..Len(GetConversation) : HasToolUse(GetConversation[i])

DataEvents(run) == SelectSeq(run.trace, LAMBDA ev : ev.event = "data")

\* C11: the iterations value of a run's completion event is the number of
\* model calls the run made: one more than the tool rounds it went through.
C11_IterationsCountCalls ==
    \A r \in 1..Len(runs) : \A i \in 1..Len(DataEvents(runs[r])) :
        /\ DataEvents(runs[r])[i].iterations = runs[r].calls
        /\ DataEvents(runs[r])[i].iterations = runs[r].dispatches + 1

\* a completion event with iterations = 2 after one tool round
C11_Witness ==
    \E r \in 1..Len(runs) :
        /\ runs[r].pc = "done" /\ runs[r].dispatches = 1
        /\ Len(DataEvents(runs[r])) = 1
        /\ DataEvents(runs[r])[1].iterations = 2

\* what follows the response published as trace[i] of the run: Done (the
\* completion event and no dispatch), or one dispatch of exactly the returned
\* calls and then, while the cap allows, the next model call
FollowsResponse(run, i) ==
    LET ev == run.trace[i]
    IN  IF ~AsksForTools(ev)
        THEN /\ Halted(run)
             /\ Len(run.trace) > i
             /\ run.trace[i + 1].event = "data"
             /\ run.dispatches = ev.iteration - 1
             /\ run.calls = ev.iteration
        ELSE /\ run.dispatches >= ev.iteration
             /\ ~(\E j \in 1..Len(run.trace) : run.trace[j].event = "data"
                                               /\ run.trace[j].iterations = ev.iteration)
             /\ (run.dispatches = ev.iteration /\ run.pc = "tools") =>
                   /\ Len(run.trace) = i
                   /\ [k \in 1..Len(run.pending) |-> run.pending[k].call] = ev.toolCalls
             /\ ~(run.dispatches = ev.iteration /\ run.pc = "tools") =>
                   /\ Len(run.trace) > i
                   /\ IsToolResults(run.trace[i + 1])
                   /\ InCallOrder(ev.toolCalls, run.trace[i + 1].toolResults)
                   /\ IF ev.iteration < config.maxIterations
                      THEN run.calls >= ev.iteration + 1
                      ELSE /\ run.calls = ev.iteration
                           /\ Holds(run.trace,
                                    ErrorEvent(MaxIterationsError(config.maxIterations)))

\* C12: after each model response the loop is Done if and only if the stop
\* reason is not tool_use or the tool-call list is empty; otherwise it
\* dispatches exactly the returned calls once and then, subject to the cap,
\* makes another model call.
C12_DoneOrDispatch ==
    \A r \in 1..Len(runs) : \A i \in 1..Len(runs[r].trace) :
        IsResponse(runs[r].trace[i]) => FollowsResponse(runs[r], i)

\* C13: a user turn that is accepted (credential present) appends exactly one
\* user message to the conversation, and the first model call of its run is
\* sent a message list whose last element is that message.
C13_UserTurnAppended ==
    [][(/\ node = "agentLoop"
        /\ Len(runs') = Len(runs) + 1
        /\ runs'[Len(runs')].apiKey # NoKey)
       => /\ Len(messages') = Len(messages) + 1
          /\ IsPrefix(messages, messages')
          /\ messages'[Len(messages')].role = "user"
          /\ runs'[Len(runs')].calls = 1 =>
                LET sent == runs'[Len(runs')].request.messages
                IN  Len(sent) > 0 /\ sent[Len(sent)] = messages'[Len(messages')]]_vars

(***************************************************************************)
(* The memory node.                                                        *)
(***************************************************************************)
PromptConfigured == node = "memory" /\ config.systemPrompt # ""

Emissions(op) == SelectSeq(emitted, LAMBDA e : e.op = op)

LastEmitted == emitted[Len(emitted)]

\* C14: in a memory constructed with a system prompt, the first stored
\* message is the configured system message after every sequence of
\* addMessage, clear and write calls: it is never evicted.
C14_SystemPromptPinned ==
    PromptConfigured =>
        /\ Len(messages) >= 1
        /\ messages[1] = SystemMessage(config.systemPrompt)

\* a prompt is configured, appends have exceeded the limit and a clear followed
C14_Witness ==
    /\ PromptConfigured
    /\ config.maxMessages = 2
    /\ Len(Emissions("addMessage")) >= 2
    /\ Len(emitted) = 3 /\ emitted[2].op = "addMessage" /\ emitted[3].op = "clear"
    /\ messages = <<SystemMessage(config.systemPrompt)>>

LimitConfigured == node = "memory" /\ config.maxMessages >= 1

\* C15: in a memory constructed with maxMessages = N >= 1, with or without a
\* system prompt, every addMessage leaves at most N stored messages.
C15_LimitKept ==
    [][(LimitConfigured /\ \E message \in MemoryMessages : \E thr \in ThrowChoices :
                              AddMessage(message, thr))
       => Len(GetMessages') <= config.maxMessages]_vars

\* the third append to a memory that keeps two messages, one of them the prompt
C15_Witness ==
    /\ LimitConfigured /\ PromptConfigured
    /\ config.maxMessages = 2
    /\ Len(Emissions("addMessage")) = 3
    /\ Len(messages) = 2

\* what clear is to leave: the system message configured at construction, if any
PinnedAtConstruction ==
    IF config.systemPrompt # "" THEN <<SystemMessage(config.systemPrompt)>> ELSE <<>>

AfterClear == node = "memory" /\ emitted # <<>> /\ LastEmitted.op = "clear"

\* C16: after clear(), getMessages() returns [] in a memory constructed
\* without a system prompt and [systemMessage] in one constructed with a
\* prompt, whatever operations preceded the clear; a second clear() leaves
\* what the first one left.
C16_ClearLeavesPinned ==
    /\ [](AfterClear => GetMessages = PinnedAtConstruction)
    /\ [][(AfterClear /\ \E thr \in ThrowChoices : Clear(thr))
          => GetMessages' = GetMessages]_vars

\* the second half of C16 alone: a clear that follows a clear changes nothing
ClearIdempotent ==
    [][(AfterClear /\ \E thr \in ThrowChoices : Clear(thr))
       => GetMessages' = GetMessages]_vars

Mutation ==
    \/ \E message \in MemoryMessages : \E thr \in ThrowChoices : AddMessage(message, thr)
    \/ \E thr \in ThrowChoices : Clear(thr)

\* C17: every addMessage and every clear of the memory calls emit once, for
\* the data event, and the message list the event carries is what
\* getMessages() returns right after the mutation.
C17_MutationPublished ==
    [][Mutation =>
          /\ Len(emitted') = Len(emitted) + 1
          /\ IsPrefix(emitted, emitted')
          /\ emitted'[Len(emitted')].event = "data"
          /\ emitted'[Len(emitted')].messages = GetMessages']_vars

\* an append that evicted a message and a clear, each with its data event
C17_Witness ==
    /\ node = "memory" /\ config.maxMessages = 1 /\ config.systemPrompt = ""
    /\ Len(emitted) = 3
    /\ emitted[1].op = "addMessage" /\ emitted[2].op = "addMessage"
    /\ emitted[2].messages # emitted[1].messages /\ Len(emitted[2].messages) = 1
    /\ emitted[3].op = "clear" /\ emitted[3].messages = <<>>

(***************************************************************************)
(* The event emitter.                                                      *)
(***************************************************************************)
Publications == IF node = "eventEmitter" THEN emitted ELSE <<>>

Calls(rec) == SelectSeq(rec.log, LAMBDA e : e.kind = "call")

CallsOf(rec, name) == SelectSeq(rec.log, LAMBDA e : e.kind = "call" /\ e.event = name)

\* the handlers of the published name that threw for the published value
Throwers(rec) ==
    {i \in 1..Len(rec.registered[rec.event]) :
        Throwing(rec.registered[rec.event][i], rec.value)}

\* every handler registered for the published name was called once with the
\* published value, in the order of registration
OwnHandlersInOrder(rec) ==
    LET cs == CallsOf(rec, rec.event)
    IN  /\ Len(cs) = Len(rec.registered[rec.event])
        /\ \A k \in 1..Len(cs) : cs[k].index = k /\ cs[k].value = rec.value

\* the calls of the error handlers made for the exceptions of the handlers of
\* another name: all of them, in registration order, once for each exception
ErrorHandlersPerException(rec) ==
    LET cs == CallsOf(rec, "error")
        n == Len(rec.registered["error"])
    IN  /\ Len(cs) = n * Cardinality(Throwers(rec))
        /\ \A k \in 1..Len(cs) : cs[k].index = ((k - 1) % n) + 1 /\ cs[k].value = HandlerError

\* C18: emit(event, value) calls every handler registered for event exactly
\* once, before it returns, in the order of registration, and calls no
\* handler registered for another name.
C18_OnlyOwnHandlers ==
    \A p \in 1..Len(Publications) :
        LET rec == Publications[p]
        IN  /\ OwnHandlersInOrder(rec)
            /\ \A k \in 1..Len(Calls(rec)) : Calls(rec)[k].event = rec.event

\* C18 (amended): emit(event, value) calls every handler registered for event
\* exactly once, before it returns, in the order of registration; the only
\* handlers of another name it calls are those registered for 'error', all of
\* them once, in registration order and with the exception as value, for each
\* handler of event that throws.
C18_OwnHandlersAndErrorHandlers ==
    \A p \in 1..Len(Publications) :
        LET rec == Publications[p]
        IN  /\ OwnHandlersInOrder(rec)
            /\ \A k \in 1..Len(Calls(rec)) : Calls(rec)[k].event \in {rec.event, "error"}
            /\ rec.event # "error" => ErrorHandlersPerException(rec)

\* a publication whose first handler throws, with a sibling and an error handler
C18_Witness ==
    \E p \in 1..Len(Publications) :
        LET rec == Publications[p]
        IN  /\ rec.event = "data" /\ rec.registered["data"] = <<"throw", "ok">>
            /\ rec.registered["error"] = <<"ok">>
            /\ rec.log = <<Call("data", 1, "bad"), Reemit(HandlerError),
                           Call("error", 1, HandlerError), Call("data", 2, "bad")>>

Reemits(rec) == SelectSeq(rec.log, LAMBDA e : e.kind = "emit")

\* every call of a handler that threw is followed at once by emit('error', error)
ReemittedWhereThrown(rec) ==
    \A k \in 1..Len(rec.log) :
        (/\ rec.log[k].kind = "call" /\ rec.log[k].event = rec.event
         /\ rec.log[k].index \in Throwers(rec))
        => k < Len(rec.log) /\ rec.log[k + 1] = Reemit(HandlerError)

\* C19: when a handler of an event other than 'error' throws during emit,
\* every other handler registered for the event is still called exactly once,
\* the exception is published exactly once on 'error', and emit returns
\* normally to its caller.
C19_ThrowerIsolated ==
    \A p \in 1..Len(Publications) :
        LET rec == Publications[p]
        IN  (rec.event # "error" /\ Throwers(rec) # {}) =>
               /\ OwnHandlersInOrder(rec)
               /\ Len(Reemits(rec)) = Cardinality(Throwers(rec))
               /\ ReemittedWhereThrown(rec)
               /\ ~rec.threw

\* a thrower between two siblings, and a throwing error handler
C19_Witness ==
    \E p \in 1..Len(Publications) :
        LET rec == Publications[p]
        IN  /\ rec.event = "iteration" /\ rec.registered["iteration"] = <<"throw", "ok">>
            /\ rec.registered["error"] = <<"throw">>
            /\ rec.log = <<Call("iteration", 1, "bad"), Reemit(HandlerError),
                           Call("error", 1, HandlerError), Logged("error", 1, HandlerError),
                           Call("iteration", 2, "bad")>>
            /\ ~rec.threw

(***************************************************************************)
(* Subscribers that throw, in the nodes.                                   *)
(***************************************************************************)
NodeEmissions == IF node = "memory" THEN emitted ELSE <<>>

\* C20: in every node, a subscriber that throws while it handles an event
\* aborts neither the other subscribers of the event nor the code that
\* published it, and its exception is published on the node's error event.
C20_SubscriberIsolated ==
    /\ \A p \in 1..Len(NodeEmissions) :
           LET rec == NodeEmissions[p]
           IN  /\ Len(rec.invoked) = Len(listeners[rec.event])
               /\ ~rec.threw
    /\ \A r \in 1..Len(runs) : ~runs[r].threw
    /\ \A q \in 1..Len(requests) : ~requests[q].threw

(***************************************************************************)
(* The protocol adapters.                                                  *)
(***************************************************************************)
\* the requests of the LLM node that were built for provider
RequestsBuilt(provider) ==
    IF node = "llm" /\ config.provider = provider
    THEN SelectSeq(requests, LAMBDA q : q.calls = 1)
    ELSE <<>>

HasLeadingSystem(msgs) == Len(msgs) > 0 /\ msgs[1].role = "system"

\* C28: in the request built for the first provider from any message list,
\* the system field is the content of the leading system-role message, that
\* message is removed from messages, and all other messages are passed through
\* unchanged and in their original order.
C28_LeadingSystemExtracted ==
    \A q \in 1..Len(RequestsBuilt("anthropic")) :
        LET msgs == RequestsBuilt("anthropic")[q].input
            body == RequestsBuilt("anthropic")[q].request
        IN  IF HasLeadingSystem(msgs)
            THEN body.system = SystemTextOf(msgs[1]) /\ body.messages = Tail(msgs)
            ELSE body.system = "" /\ body.messages = msgs

\* the same for the message lists that hold one system-role message at most
SingleSystemExtracted ==
    \A q \in 1..Len(RequestsBuilt("anthropic")) :
        LET msgs == RequestsBuilt("anthropic")[q].input
            body == RequestsBuilt("anthropic")[q].request
        IN  Len(SelectSeq(msgs, IsSystem)) <= 1 =>
               IF HasLeadingSystem(msgs)
               THEN body.system = SystemTextOf(msgs[1]) /\ body.messages = Tail(msgs)
               ELSE body.system = "" /\ body.messages = msgs

\* a message as its role and its text
RoleAndText(role, text) == [role |-> role, text |-> text]

\* the content of a wire message as text: a string, or null
WireText(c) == IF IsString(c) THEN c.string ELSE ""

\* the first provider's request read back: the system field, when the body
\* has one, is a system message, followed by the messages of the body
ReadBackAnthropic(body) ==
    (IF body.system # "" THEN <<RoleAndText("system", body.system)>> ELSE <<>>)
    \o [i \in 1..Len(body.messages) |->
           RoleAndText(body.messages[i].role, WireText(body.messages[i].content))]

\* the second provider's request read back: one message per wire message
ReadBackOpenAI(body) ==
    [i \in 1..Len(body.messages) |->
        RoleAndText(body.messages[i].role, WireText(body.messages[i].content))]

PlainText(m) == IsString(m.content)

\* how often the message of that role and text occurs in a list read back
Occurrences(read, role, text) ==
    Cardinality({i \in 1..Len(read) : read[i] = RoleAndText(role, text)})

\* the requests built for provider from plain-text messages with one
\* system-role message at most (lists with several are the subject of C28)
PlainRequests(provider) ==
    SelectSeq(RequestsBuilt(provider),
              LAMBDA q : /\ \A i \in 1..Len(q.input) : PlainText(q.input[i])
                         /\ Len(SelectSeq(q.input, IsSystem)) <= 1)

EmptySystem(m) == m.role = "system" /\ m.content.string = ""

SettledCalls ==
    {p \in UNION ({ {batches[d].pending[k] : k \in 1..Len(batches[d].pending)} :
                        d \in 1..Len(batches) }
                  \cup { {runs[r].pending[k] : k \in 1..Len(runs[r].pending)} :
                        r \in 1..Len(runs) }) :
        p.settled /\ p.handler # NoHandler}

HasStringContent(result) == "content" \in DOMAIN result

\* C30: whatever a tool handler does (return a string, return an object or
\* another value, throw), the content of the tool result is a string: a
\* returned string unchanged, the JSON encoding of any other returned value.
C30_ContentIsString ==
    \A p \in SettledCalls :
        /\ HasStringContent(p.result)
        /\ p.handler.kind = "string" => p.result.content = p.handler.str
        /\ p.handler.kind = "object" => p.result.content = JSONStringify(p.handler.obj)

\* the same for the handlers that return a string or an object, or throw
DefinedContentIsString ==
    \A p \in SettledCalls :
        p.handler.kind # "undefined" =>
            /\ HasStringContent(p.result)
            /\ p.handler.kind = "string" => p.result.content = p.handler.str
            /\ p.handler.kind = "object" => p.result.content = JSONStringify(p.handler.obj)

\* the calls of emit made on a read stream or an input node
StreamEmissions == IF node = "readStream" THEN emitted ELSE <<>>

\* pipe.ts 4-14: what a call of the handler that pipe registered does to its sink
Forwarded(e) ==
    IF e.event = "data" THEN [op |-> "write", value |-> e.value]
    ELSE IF e.event = "error" THEN [op |-> "emit", event |-> "error", value |-> e.value]
    ELSE [op |-> "emit", event |-> "close", value |-> "none"]

\* what sink k received during one call of emit, in order
Received(rec, k) ==
    LET cs == SelectSeq(rec.log, LAMBDA e :
                  /\ e.kind = "call"
                  /\ rec.registered[e.event][e.index] = Forwarder(k))
    IN  [i \in 1..Len(cs) |-> Forwarded(cs[i])]

\* C21: whatever the status of the source, a value it emits is delivered to
\* every subscriber and to every connected sink, also while it is paused.
C21_DeliveredWhateverStatus ==
    \A p \in 1..Len(StreamEmissions) :
        LET rec == StreamEmissions[p]
        IN  /\ OwnHandlersInOrder(rec)
            /\ \A k \in Connected(rec.registered) :
                  \E i \in 1..Len(Received(rec, k)) :
                      Received(rec, k)[i] = Forwarded(Call(rec.event, 0, rec.value))

\* a paused source that was piped, resumed by the pipe and paused again
\* delivers a value to its subscriber and to its sink
C21_Witness ==
    /\ node = "readStream"
    /\ \E p \in 1..Len(emitted) :
          LET rec == emitted[p]
          IN  /\ rec.status = "paused" /\ rec.event = "data"
              /\ Connected(rec.registered) # {}
              /\ \E i \in 1..Len(rec.registered["data"]) :
                    rec.registered["data"][i] \notin Forwarders
              /\ Len(CallsOf(rec, "data")) >= 2

RECURSIVE SinkLogFrom(_, _)
\* all that sink k received, from the p-th call of emit on
SinkLogFrom(k, p) ==
    IF p > Len(StreamEmissions) THEN <<>>
    ELSE Received(StreamEmissions[p], k) \o SinkLogFrom(k, p + 1)

\* the values written to sink k, in the order of the writes
Written(k) ==
    LET ws == SelectSeq(SinkLogFrom(k, 1), LAMBDA r : r.op = "write")
    IN  [i \in 1..Len(ws) |-> ws[i].value]

\* the values the source emitted while sink k was connected, in order
EmittedWhileConnected(k) ==
    LET es == SelectSeq(StreamEmissions, LAMBDA rec :
                  rec.event = "data" /\ k \in Connected(rec.registered))
    IN  [i \in 1..Len(es) |-> es[i].value]

\* C22: after pipe(sink), every value, error and end of stream the source
\* emits reaches the sink (a value by write, an error and the end as events
\* of the sink), and the values reach the sink in the order of emission.
C22_PipeForwardsInOrder ==
    \A k \in 1..MaxSinks :
        /\ \A p \in 1..Len(StreamEmissions) :
              LET rec == StreamEmissions[p]
              IN  k \in Connected(rec.registered) =>
                     \E i \in 1..Len(Received(rec, k)) :
                         Received(rec, k)[i] = Forwarded(Call(rec.event, 0, rec.value))
        /\ Written(k) = EmittedWhileConnected(k)

\* a piped source emitted two different values, the first with a subscriber
\* that throws, or a value and then the end of the stream
C22_Witness ==
    /\ node = "readStream"
    /\ Len(emitted) = 2
    /\ Connected(emitted[1].registered) # {}
    /\ emitted[1].event = "data"
    /\ \/ emitted[2].event = "data" /\ emitted[2].value # emitted[1].value
       \/ emitted[2].event = "close"

\* C23: after a source is piped to a sink its observable status is open, for
\* a plain read stream and for a producer node of a compiled graph.
C23_OpenAfterPipe ==
    [][(\E k \in 1..MaxSinks : StreamPipe(k)) => ObservableStatus' = "open"]_vars

\* the same for the plain read stream alone
PlainStreamOpenAfterPipe ==
    [][(node = "readStream" /\ config.type = "readStream"
            /\ \E k \in 1..MaxSinks : StreamPipe(k))
          => ObservableStatus' = "open"]_vars

\* the descriptors compile gets to: no unknown type up to the i-th
Instantiated(wf, i) == \A j \in 1..i : wf[j].type \in NodeTypes

\* the descriptors of the type of the i-th among the first i
SeenSoFar(wf, i) == Cardinality({j \in 1..i : wf[j].type = wf[i].type})

\* C24: a descriptor without an id gets the id 'type-N', N being the number of
\* descriptors of its type up to and including it, those with an explicit id
\* counted; the ids are a function of the descriptor list.
C24_AutoIdCountsType ==
    [][Compile =>
          /\ Len(workflow') = Len(workflow)
          /\ \A i \in 1..Len(workflow) :
                Instantiated(workflow, i) =>
                   workflow'[i].id = IF workflow[i].id # NoId THEN workflow[i].id
                                     ELSE AutoId(workflow[i].type, SeenSoFar(workflow, i))]_vars

\* a compiled list whose second input follows an input with an explicit id
C24_Witness ==
    /\ node = "compile"
    /\ compileContext.phase = "compiled"
    /\ workflow[1].id = "a"
    /\ workflow[2].id = "input-2"

\* C25: after compile no two descriptors have the same id, and the context
\* maps the id of every descriptor to the node made for it.
C25_NodeIdentityUnique ==
    (node = "compile" /\ compileContext.phase = "compiled") =>
        /\ \A i, j \in 1..Len(workflow) : workflow[i].id = workflow[j].id => i = j
        /\ \A i \in 1..Len(workflow) :
              /\ workflow[i].id \in DOMAIN compileContext.nodes
              /\ compileContext.nodes[workflow[i].id] = i
        /\ Cardinality(DOMAIN compileContext.nodes) = Len(workflow)

\* the mapping is right whenever the ids come out distinct
NodeIdentityUniqueUnlessClash ==
    (/\ node = "compile" /\ compileContext.phase = "compiled"
     /\ \A i, j \in 1..Len(workflow) : i < j => workflow[i].id # workflow[j].id) =>
        \A i \in 1..Len(workflow) :
            /\ workflow[i].id \in DOMAIN compileContext.nodes
            /\ compileContext.nodes[workflow[i].id] = i

\* the calls of trigger on the input nodes of a compiled graph
Triggers == IF node = "compile" THEN emitted ELSE <<>>

\* the wires registered on a producer, by position, in order of registration
WiresOf(producer) ==
    SelectSeq([k \in 1..Len(compileContext.wires) |-> k],
              LAMBDA k : compileContext.wires[k].producer = producer)

\* the accumulator of the j-th write of a trigger as it was before that write
Before(t, j) ==
    LET w == compileContext.wires[t.writes[j].wire]
        earlier == {i \in 1..(j - 1) : compileContext.wires[t.writes[i].wire].acc = w.acc}
    IN  IF earlier = {} THEN t.before[w.acc]
        ELSE t.writes[CHOOSE i \in earlier : \A i2 \in earlier : i2 <= i].event

\* C26: when a producer emits v, every edge from it into a consumer makes one
\* call of the consumer's write with the consumer's one accumulator, in which
\* the edge's input key is v[outputKey] and every key set before, by this or
\* another edge, is still there; the call does not wait for the other inputs.
C26_SharedAccumulator ==
    \A p \in 1..Len(Triggers) :
        LET t == Triggers[p]
            own == WiresOf(t.producer)
        IN  /\ Len(t.writes) = Len(own)
            /\ \A j \in 1..Len(t.writes) :
                  LET w == compileContext.wires[own[j]]
                      event == t.writes[j].event
                  IN  /\ t.writes[j].wire = own[j]
                      /\ t.writes[j].consumer = w.consumer
                      /\ w.key \in DOMAIN event
                      /\ event[w.key] = Property(t.value, w.out)
                      /\ \A key \in DOMAIN Before(t, j) :
                            /\ key \in DOMAIN event
                            /\ key # w.key => event[key] = Before(t, j)[key]

\* a consumer with two declared inputs was written to with one of them only,
\* and later with both, the first kept
C26_Witness ==
    /\ node = "compile"
    /\ \E p, q \in 1..Len(emitted) :
          /\ p < q
          /\ emitted[p].producer # emitted[q].producer
          /\ Len(emitted[p].writes) = 1 /\ Len(emitted[q].writes) = 1
          /\ emitted[p].writes[1].consumer = emitted[q].writes[1].consumer
          /\ DOMAIN emitted[p].writes[1].event = {"x"}
          /\ DOMAIN emitted[q].writes[1].event = {"x", "y"}

\* C27: an `in` entry that is a list of edges compiles, and every edge of the
\* list is wired as a single edge is.
C27_EdgeListCompiles ==
    (/\ node = "compile" /\ compileContext.phase # "new"
     /\ \E i \in 1..Len(workflow) : \E k \in 1..Len(workflow[i].in) :
           workflow[i].in[k].value.kind = "list") =>
        /\ compileContext.phase = "compiled"
        /\ \A i \in 1..Len(workflow) : \A k \in 1..Len(workflow[i].in) :
              LET value == workflow[i].in[k].value
              IN  value.kind = "list" =>
                     \A e \in 1..Len(value.edges) :
                         \E n \in 1..Len(compileContext.wires) :
                             LET w == compileContext.wires[n]
                             IN  /\ w.acc = i /\ w.key = workflow[i].in[k].key
                                 /\ w.out = value.edges[e].out
                                 /\ w.producer = compileContext.nodes[value.edges[e].node]

\* what compile does with a list of edges: it throws, having wired none of them
EdgeListThrows ==
    (/\ node = "compile" /\ compileContext.phase # "new"
     /\ \E i \in 1..Len(workflow) : \E k \in 1..Len(workflow[i].in) :
           workflow[i].in[k].value.kind = "list") =>
        compileContext.phase = "threw"

(***************************************************************************)
(* Exceptions of error handlers.                                           *)
(***************************************************************************)
\* the times 'error' was published during one call of emit, the call itself
\* included when it is a call of emit('error', ...)
ErrorPublications(rec) == Len(Reemits(rec)) + (IF rec.event = "error" THEN 1 ELSE 0)

\* the calls of error handlers that threw, by position in the log
ThrownByErrorHandler(rec) ==
    {k \in 1..Len(rec.log) :
        /\ rec.log[k].kind = "call" /\ rec.log[k].event = "error"
        /\ Throwing(rec.registered["error"][rec.log[k].index], rec.log[k].value)}

\* C35: an exception thrown by a handler of 'error' is neither published again
\* nor raised to the caller of emit: emit returns, the error handlers after the
\* thrower are still called, and 'error' is published for the exceptions of
\* the handlers of other events only.
C35_ErrorHandlerThrowContained ==
    \A p \in 1..Len(Publications) :
        LET rec == Publications[p]
            n   == Len(rec.registered["error"])
        IN  /\ ~rec.threw
            /\ Len(Reemits(rec)) = IF rec.event = "error" THEN 0
                                   ELSE Cardinality(Throwers(rec))
            /\ Len(CallsOf(rec, "error")) = n * ErrorPublications(rec)
            /\ \A k \in ThrownByErrorHandler(rec) :
                  /\ k < Len(rec.log)
                  /\ rec.log[k + 1] = Logged("error", rec.log[k].index, HandlerError)

\* emit('error', ...) with two error handlers that throw before one that returns
C35_Witness ==
    \E p \in 1..Len(Publications) :
        LET rec == Publications[p]
        IN  /\ rec.event = "error" /\ rec.value = "bad"
            /\ rec.registered["error"] = <<"throw", "throw", "ok">>
            /\ rec.log = <<Call("error", 1, "bad"), Logged("error", 1, HandlerError),
                           Call("error", 2, "bad"), Logged("error", 2, HandlerError),
                           Call("error", 3, "bad")>>
            /\ ~rec.threw

(***************************************************************************)
(* What the memory evicts.                                                 *)
(***************************************************************************)
\* 1 when the first message of the list is a system message, else 0
LeadingSystem(msgs) == IF Len(msgs) > 0 /\ msgs[1].role = "system" THEN 1 ELSE 0

\* the last n elements of a sequence
LastOf(seq, n) == SubSeq(seq, Len(seq) - n + 1, Len(seq))

\* the system message at the head of the list, if any, followed by the most
\* recent of the others, n messages in all
NewestBehindSystem(all, n) ==
    SubSeq(all, 1, LeadingSystem(all)) \o LastOf(all, n - LeadingSystem(all))

RECURSIVE IsSubsequence(_, _)
\* s is t with some elements left out, the others in the order they have in t
IsSubsequence(s, t) ==
    IF s = <<>> THEN TRUE
    ELSE IF t = <<>> THEN FALSE
    ELSE IF Head(s) = Head(t) THEN IsSubsequence(Tail(s), Tail(t))
    ELSE IsSubsequence(s, Tail(t))

\* C33: an append that exceeds the bound N deletes exactly the oldest messages
\* behind the system message: the store then holds the system message (if any)
\* followed by the most recently appended messages, in their order; neither
\* append nor clear reorders the stored messages.
C33_OldestEvicted ==
    [][node = "memory" =>
          /\ \A message \in MemoryMessages : \A thr \in ThrowChoices :
                AddMessage(message, thr) =>
                   LET all == Append(GetMessages, message)
                   IN  /\ (config.maxMessages # 0 /\ Len(all) > config.maxMessages)
                           => GetMessages' = NewestBehindSystem(all, config.maxMessages)
                       /\ (config.maxMessages = 0 \/ Len(all) <= config.maxMessages)
                           => GetMessages' = all
                       /\ IsSubsequence(GetMessages', all)
          /\ (\E thr \in ThrowChoices : Clear(thr)) => IsSubsequence(GetMessages', GetMessages)]_vars

\* a memory that keeps two messages, one of them the prompt, after an append
\* that evicted the older of two different messages
C33_Witness ==
    /\ node = "memory"
    /\ config.maxMessages = 2 /\ config.systemPrompt # ""
    /\ Len(emitted) = 3
    /\ \A k \in 1..3 : emitted[k].op = "addMessage"
    /\ emitted[2].messages[2] # emitted[3].messages[2]
    /\ messages = <<SystemMessage(config.systemPrompt), emitted[3].messages[2]>>

(***************************************************************************)
(* The handler table while a batch is in flight.                           *)
(***************************************************************************)
\* the result a call gets from the handler that was looked up for it
ResultWith(p) ==
    IF p.handler = NoHandler THEN NotFoundResult(p.call) ELSE ResultOf(p.call, p.handler)

\* C38: the handlers of all calls of a batch are looked up and started when
\* the batch is dispatched, before any of them completes; registerTool and
\* unregisterTool while the batch is in flight change neither the handler a
\* call of the batch uses nor the results of the batch.
C38_HandlersFixedAtDispatch ==
    /\ [](\A d \in 1..Len(batches) :
             /\ Len(batches[d].pending) = Len(batches[d].toolCalls)
             /\ \A k \in 1..Len(batches[d].pending) :
                   batches[d].pending[k].settled =>
                      batches[d].pending[k].result = ResultWith(batches[d].pending[k]))
    /\ [][/\ \A toolCalls \in RouterBatches : \A thr \in ThrowChoices :
                RouterWrite(toolCalls, thr) =>
                   \A k \in 1..Len(toolCalls) :
                      LET p == batches'[Len(batches')].pending[k]
                      IN  /\ p.call = toolCalls[k]
                          /\ p.handler = LookupHandler(tools, toolCalls[k].name)
          /\ \A d \in 1..Len(batches) : \A k \in 1..Len(batches[d].pending) :
                /\ batches'[d].pending[k].handler = batches[d].pending[k].handler
                /\ batches[d].pending[k].settled =>
                      batches'[d].pending[k] = batches[d].pending[k]]_vars

\* a batch in flight: one call has completed with the handler it was started
\* with, which has been replaced since; the other still runs a handler that
\* has been unregistered
C38_Witness ==
    \E d \in 1..Len(batches) :
        /\ batches[d].pc = "tools"
        /\ \E j, k \in 1..Len(batches[d].pending) :
              LET done == batches[d].pending[j]
                  busy == batches[d].pending[k]
              IN  /\ done.settled /\ done.handler # NoHandler
                  /\ done.call.name \in DOMAIN tools
                  /\ tools[done.call.name] # done.handler
                  /\ done.result = ResultOf(done.call, done.handler)
                  /\ ~busy.settled
                  /\ busy.call.name \notin DOMAIN tools

(***************************************************************************)
(* The observability events of a run.                                      *)
(***************************************************************************)
IsObservability(ev) == ev.event = "iteration"

Observability(run) == SelectSeq(run.trace, IsObservability)

\* a turn that passed the credential check: its run has begun
Accepted(run) == run.apiKey # NoKey

\* the j-th observability event of a run is in its place: the start event
\* first, then the response of iteration 1; a response of iteration i + 1 only
\* behind the tool results of iteration i, and tool results of iteration i
\* only behind a response of iteration i that asked for tools
InPlace(obs, j) ==
    IF j = 1 THEN obs[1].phase = "start" /\ obs[1].iteration = 0
    ELSE IF IsResponse(obs[j])
    THEN \/ j = 2 /\ obs[j].iteration = 1
         \/ IsToolResults(obs[j - 1]) /\ obs[j].iteration = obs[j - 1].iteration + 1
    ELSE /\ IsToolResults(obs[j])
         /\ IsResponse(obs[j - 1]) /\ AsksForTools(obs[j - 1])
         /\ obs[j].iteration = obs[j - 1].iteration

\* C31: the observability events of a run come in this order: one start event
\* of iteration 0 first, then for i = 1, 2, ... one llm_response event of
\* iteration i and, when tools were dispatched, one tool_results event of
\* iteration i behind it; the completion event comes right behind the last
\* llm_response event, and no observability event comes behind a terminal event.
C31_ObservabilityOrder ==
    \A r \in 1..Len(runs) :
        LET run == runs[r]
            obs == Observability(run)
        IN  /\ Accepted(run) => Len(run.trace) >= 1 /\ IsObservability(run.trace[1])
            /\ \A j \in 1..Len(obs) : InPlace(obs, j)
            /\ Len(Responses(run)) = run.calls - (IF run.pc = "llm" \/ run.fetchFailed THEN 1 ELSE 0)
            /\ Len(ToolResultEvents(run)) = run.dispatches - (IF run.pc = "tools" THEN 1 ELSE 0)
            /\ \A i \in 1..Len(run.trace) :
                  /\ run.trace[i].event = "data" =>
                        i > 1 /\ IsResponse(run.trace[i - 1])
                  /\ IsTerminal(run.trace[i]) =>
                        \A j \in (i + 1)..Len(run.trace) : ~IsObservability(run.trace[j])

\* a run of two iterations that completed: start, response 1, tool results 1,
\* response 2 and the completion event
C31_Witness ==
    \E r \in 1..Len(runs) :
        LET run == runs[r]
        IN  /\ run.pc = "done"
            /\ Len(run.trace) = 5
            /\ IsObservability(run.trace[1])
            /\ run.trace[1].phase = "start" /\ run.trace[1].iteration = 0
            /\ IsResponse(run.trace[2]) /\ run.trace[2].iteration = 1
            /\ IsToolResults(run.trace[3]) /\ run.trace[3].iteration = 1
            /\ IsResponse(run.trace[4]) /\ run.trace[4].iteration = 2
            /\ run.trace[5].event = "data"

(***************************************************************************)
(* The iteration cap of a loop and of its successive runs.                 *)
(***************************************************************************)
\* an agent loop constructed with maxIterations: 0
ConfiguredZero == node = "agentLoop" /\ config.maxIterations = ConfigMaxIterations(0)

\* C34: with the maximum configured as 0, a user turn makes no model call and
\* its run fails at once with the iteration-limit error that names the limit 0.
C34_ZeroCapNoCall ==
    ConfiguredZero =>
        \A r \in 1..Len(runs) :
            Accepted(runs[r]) =>
                /\ runs[r].calls = 0
                /\ runs[r].pc = "failed"
                /\ Holds(runs[r].trace, ErrorEvent(MaxIterationsError(0)))

\* what the loop does with maxIterations: 0: it runs with the default cap
ZeroCapIsDefault ==
    ConfiguredZero =>
        /\ config.maxIterations = DefaultMaxIterations
        /\ \A r \in 1..Len(runs) :
              /\ runs[r].calls <= DefaultMaxIterations
              /\ Accepted(runs[r]) => runs[r].calls >= 1
              /\ ~Holds(runs[r].trace, ErrorEvent(MaxIterationsError(0)))

\* the model calls made by all runs so far
RECURSIVE TotalCalls(_)
TotalCalls(n) == IF n = 0 THEN 0 ELSE runs[n].calls + TotalCalls(n - 1)

\* C39: the iteration counter belongs to the run: every accepted turn counts
\* from 0 whatever became of the runs before it, so that a run behind a
\* completed or failed one makes up to M model calls again, n turns make at
\* most n * M calls, and the conversation is carried over from turn to turn.
C39_CounterPerRun ==
    /\ [](node = "agentLoop" =>
             /\ \A r \in 1..Len(runs) :
                   /\ runs[r].calls <= runs[r].iteration
                   /\ runs[r].iteration <= config.maxIterations
                   /\ \A j \in 1..Len(Responses(runs[r])) :
                         Responses(runs[r])[j].iteration = j
                   /\ Holds(runs[r].trace,
                            ErrorEvent(MaxIterationsError(config.maxIterations)))
                         => Len(Responses(runs[r])) = config.maxIterations
             /\ TotalCalls(Len(runs)) <= Len(runs) * config.maxIterations)
    /\ [][\A input \in UserTurns : \A thr \in ThrowChoices :
             Write(input, thr) =>
                /\ IsPrefix(GetConversation, GetConversation')
                /\ runs'[Len(runs')].iteration \in {0, 1}
                /\ ~Holds(runs'[Len(runs')].trace,
                          ErrorEvent(MaxIterationsError(config.maxIterations)))]_vars

\* a second turn behind a run that failed at the cap: both made M calls, and
\* the conversation holds the first run's turns before the second user turn
C39_Witness ==
    /\ node = "agentLoop"
    /\ Len(runs) = 2
    /\ Holds(runs[1].trace, ErrorEvent(MaxIterationsError(config.maxIterations)))
    /\ runs[1].calls = config.maxIterations
    /\ runs[2].calls = config.maxIterations /\ runs[2].pc = "done"
    /\ Len(GetConversation) = 5
    /\ HasToolUse(GetConversation[2])
    /\ Answers(GetConversation[3], GetConversation[2])
    /\ GetConversation[4].role = "user" /\ IsString(GetConversation[4].content)
    /\ GetConversation[5].role = "assistant"

(***************************************************************************)
(* Turns and calls on one loop while a run is suspended.                   *)
(***************************************************************************)
\* every assistant message with tool_use blocks is followed at once by the
\* user message that holds the matching tool_result blocks
WellAnswered(msgs) ==
    \A i \in 1..Len(msgs) :
        HasToolUse(msgs[i]) => i < Len(msgs) /\ Answers(msgs[i + 1], msgs[i])

\* the runs that make a model call in this step
Calling(r) ==
    /\ r \in 1..Len(runs')
    /\ runs'[r].calls > (IF r \in 1..Len(runs) THEN runs[r].calls ELSE 0)

\* C36: when a user turn is accepted while an earlier run is suspended in a
\* model call or a tool dispatch, every model call is still sent a conversation
\* in which each assistant tool_use message is followed at once by the user
\* message with its tool_result blocks.
C36_OverlapKeepsPairing ==
    [][(/\ node = "agentLoop"
        /\ \E r \in 1..Len(runs') :
              /\ Calling(r)
              /\ \E other \in 1..Len(runs) : other # r /\ ~Halted(runs[other]))
       => WellAnswered(GetConversation')]_vars

(***************************************************************************)
(* Observability subscribers and the control flow of a run.                *)
(***************************************************************************)
\* the same segment with 'iteration' subscribers that do nothing
Quiet(thr) == [thr EXCEPT !["iteration"] = FALSE]

\* C32: the outcome of a run (its model calls, its tool dispatches, the
\* conversation and its terminal event) does not depend on what the
\* 'iteration' subscribers do, throwing included: every step of a run leads to
\* the state it leads to when those subscribers do nothing.
C32_SubscribersCannotAlterFlow ==
    [][/\ \A input \in UserTurns : \A thr \in ThrowChoices :
             Write(input, thr) => Write(input, Quiet(thr))
       /\ \A r \in 1..Len(runs) : \A thr \in ThrowChoices :
             /\ \A outcome \in FetchOutcomes(config.provider) :
                   LLMSettles(r, outcome, thr) => LLMSettles(r, outcome, Quiet(thr))
             /\ ToolsJoin(r, thr) => ToolsJoin(r, Quiet(thr))]_vars

\* the same for subscribers that return: a step in which no 'iteration'
\* subscriber throws never enters the catch block with a subscriber's exception
ReturningSubscribersLeaveFlow ==
    [][\A r \in 1..Len(runs') :
          (node = "agentLoop" /\ ~HasThrower("iteration") /\ ~HasThrower("data")
             /\ ~HasThrower("error"))
          => ~runs'[r].threw]_vars

(***************************************************************************)
(* Tool results in the conversation, and the registered tools.             *)
(***************************************************************************)
\* the blocks of a message; a string content has none
BlocksOf(m) == IF IsString(m.content) THEN <<>> ELSE m.content.blocks

\* message i of msgs holds only tool_result blocks that answer a tool_use
\* block of message i - 1
AnswersPrevious(msgs, i) ==
    \A k \in 1..Len(BlocksOf(msgs[i])) :
        LET b == BlocksOf(msgs[i])[k]
        IN  IsToolResult(b) =>
               /\ i > 1
               /\ \E j \in 1..Len(BlocksOf(msgs[i - 1])) :
                     /\ IsToolUse(BlocksOf(msgs[i - 1])[j])
                     /\ BlocksOf(msgs[i - 1])[j].id = b.tool_use_id

\* C37: every tool_result block of the conversation has, in the message right
\* before its own, a tool_use block with its id; also when clearConversation
\* is called while a run waits for the model or for its tools.
C37_ResultsFollowTheirUse ==
    node = "agentLoop" =>
        \A i \in 1..Len(GetConversation) : AnswersPrevious(GetConversation, i)

\* the same for one run on a loop whose methods are not called: no second
\* turn is written and the conversation is not cleared while it is suspended
SingleRunResultsFollowTheirUse ==
    (node = "agentLoop" /\ ~CallsMethods /\ Len(runs) <= 1) =>
        \A i \in 1..Len(GetConversation) : AnswersPrevious(GetConversation, i)

\* how often a name is among the definitions
RECURSIVE TimesDefined(_, _)
TimesDefined(defs, name) ==
    IF Len(defs) = 0 THEN 0
    ELSE (IF defs[1] = name THEN 1 ELSE 0) + TimesDefined(Tail(defs), name)

\* the definitions and the handlers name the same tools, each once
DefinitionsMatchHandlers ==
    \A name \in RegisteredNames :
        /\ TimesDefined(toolDefinitions, name) <= 1
        /\ TimesDefined(toolDefinitions, name) = 1 <=> name \in DOMAIN toolHandlers

\* the names of the tool definitions of a request (llm.ts 615 and 700-707)
SentNames(request) ==
    [i \in 1..Len(request.tools) |->
        IF config.provider = "openai" THEN request.tools[i].function.name
        ELSE request.tools[i]]

\* an agent loop constructed without tools
ConstructedWithoutTools ==
    node = "agentLoop" /\ toolDefinitions = <<>> /\ toolHandlers = NoHandlers /\ runs = <<>>

\* C40: on a loop constructed without tools, after any calls of registerTool
\* and unregisterTool, a name is among the tool definitions sent to the model
\* exactly if a handler is registered for it, and it is there at most once.
C40_DefinitionsMatchHandlers ==
    ConstructedWithoutTools =>
        [](/\ DefinitionsMatchHandlers
           /\ \A r \in 1..Len(runs) :
                 runs[r].pc = "llm" =>
                    \A name \in RegisteredNames :
                       TimesDefined(SentNames(runs[r].request), name) <= 1)

\* what does hold: every name with a handler is among the definitions
HandlersAreDefined ==
    node = "agentLoop" =>
        \A name \in DOMAIN toolHandlers : TimesDefined(toolDefinitions, name) >= 1

====
